---- MODULE Spec2Model ----
(***************************************************************************)
(* Aurora effect manager (src/src/background/effectManager.ts).            *)
(*                                                                         *)
(* The reconciler keeps one local ATTACHMENT effect per MAP-layer item     *)
(* that carries an Aurora config.  reconcileEffects is an async function:  *)
(* it suspends at every call into the scene graph (findAllEffects,         *)
(* getItemBounds, deleteItems, addItems) and another pass, started by the  *)
(* next onChange notification, can run while it is suspended.  Each action *)
(* below is one run-to-suspension segment of the code.                     *)
(***************************************************************************)
EXTENDS Integers, Sequences, FiniteSets, TLC

\* ---------------------------------------------------------------- bounds
MaxEdits == 2          \* mutations of the scene's items
MaxNoops == 2          \* change notifications that alter nothing read here
MaxInFlight == 2       \* reconcileEffects calls suspended at the same time
MaxFailures == 1       \* external calls that fail
MaxReadyEvents == 3    \* readiness events of the scene (lifecycle)
LifeEdits == 1         \* item mutations in the lifecycle specification
LifeNoops == 0         \* such notifications in the lifecycle specification

\* ------------------------------------------------------- program constants
SHAPE_ATTACHMENT_PADDING == 49

ItemIds == {"m1", "m2"}
ItemOrder == <<"m1", "m2">>       \* order of the items array
PassIds == 1..MaxInFlight         \* frames of reconcileEffects calls in flight
SatValues == {100, 50}
PosXs == {0, 10}
Layers == {"MAP", "PROP"}
BoundsMins == {-55, -60}          \* what getItemBounds may report as min

\* --------------------------------------------------------- stored values
\* Metadata is JSON-like and untyped: a value carries its JavaScript type.
JsUndefined == [typ |-> "undefined"]
JsNull == [typ |-> "null"]
NaN == [nan |-> TRUE]
Num(n) == [num |-> n]
Bool(b) == [bool |-> b]
\* Only strings that do not read as a number are modelled.
Str(s) == [str |-> s]

\* typeof v
TypeOf(v) ==
    IF "num" \in DOMAIN v \/ "nan" \in DOMAIN v THEN "number"
    ELSE IF "bool" \in DOMAIN v THEN "boolean"
    ELSE IF "str" \in DOMAIN v THEN "string"
    ELSE IF v.typ = "null" THEN "object"
    ELSE v.typ

\* The truthiness of v in a condition.
Truthy(v) ==
    IF "num" \in DOMAIN v THEN v.num # 0
    ELSE IF "nan" \in DOMAIN v THEN FALSE
    ELSE IF "bool" \in DOMAIN v THEN v.bool
    ELSE IF "str" \in DOMAIN v THEN v.str # ""
    ELSE v.typ = "object"

\* v * 1.0
ToNumber(v) ==
    IF "num" \in DOMAIN v \/ "nan" \in DOMAIN v THEN v
    ELSE IF "bool" \in DOMAIN v THEN Num(IF v.bool THEN 1 ELSE 0)
    ELSE IF "str" \in DOMAIN v THEN (IF v.str = "" THEN Num(0) ELSE NaN)
    ELSE IF v.typ = "null" THEN Num(0)
    ELSE NaN

DEFAULT_CONFIG ==
    [typ |-> "object", s |-> Num(100), l |-> Num(100), h |-> Num(0), o |-> Num(0),
     e |-> Bool(TRUE)]

\* ------------------------------------------------------------- map helpers
EmptyMap == [k \in {} |-> 0]

MapHas(m, k) == k \in DOMAIN m

MapSet(m, k, v) == [x \in (DOMAIN m) \cup {k} |-> IF x = k THEN v ELSE m[x]]

\* obj.k of a stored object: undefined when the field is absent.
Get(c, k) == IF k \in DOMAIN c THEN c[k] ELSE JsUndefined

\* `c.k ?? d` on a stored object: the field may be absent, or null.
Nullish(c, k, d) == IF Get(c, k) \in {JsUndefined, JsNull} THEN d ELSE c[k]

\* --------------------------------------------------------------- types.ts
isAuroraConfig(val) ==
    IF val = JsNull \/ TypeOf(val) # "object" THEN FALSE
    ELSE /\ TypeOf(Get(val, "s")) = "number"
         /\ TypeOf(Get(val, "l")) = "number"
         /\ TypeOf(Get(val, "h")) = "number"
         /\ TypeOf(Get(val, "o")) = "number"
         /\ TypeOf(Get(val, "e")) = "boolean"

\* -------------------------------------------------------------- shader.ts
\* A quotient a / b kept unevaluated (the uniforms are floats).
Div(a, b) == <<a, b>>

getShaderUniforms(config, geometry) ==
    [ saturation    |-> Div(config.s, 100),
      lightness     |-> Div(config.l, 100),
      hue           |-> Div(config.h, 360),
      opacity       |-> Div(config.o, 100),
      blendMode     |-> ToNumber(Nullish(config, "b", Num(0))),
      coordOffset   |-> Nullish(geometry, "coordOffset", JsUndefined),
      feather       |-> Div(Nullish(config, "f", Num(0)), 100),
      invertFeather |-> IF Truthy(Nullish(config, "fi", Bool(FALSE))) THEN 1 ELSE 0,
      itemSize      |-> Nullish(geometry, "itemSize", JsUndefined),
      shapeType     |-> IF "shapeType" \in DOMAIN geometry
                        THEN Num(geometry.shapeType)
                        ELSE NaN ]

\* ------------------------------------------------------- effectManager.ts
isShape(item) == item.type = "SHAPE"

\* The sixteen values joined with "|".  None of them contains "|", so the
\* joined string and the list of values determine each other.
effectSnapshot(config, item) ==
    << config.s, config.l, config.h, config.o, config.e, Nullish(config, "b", Num(0)),
       item.position.x, item.position.y,
       item.rotation,
       item.scale.x, item.scale.y,
       item.visible,
       item.type,
       IF isShape(item) THEN item.strokeWidth ELSE 0,
       IF isShape(item) THEN item.width ELSE 0,
       IF isShape(item) THEN item.height ELSE 0 >>

\* getCoordOffset with the padding left out.
getCoordOffsetUnpadded(item, bounds) ==
    IF item.type = "SHAPE"
    THEN IF bounds.ok
         THEN [ x |-> -(item.position.x - bounds.min.x),
                y |-> -(item.position.y - bounds.min.y) ]
         ELSE [x |-> 0, y |-> 0]
    ELSE [x |-> 0, y |-> 0]

\* bounds = [ok |-> BOOLEAN, min |-> [x, y]]: the answer of getItemBounds.
getCoordOffset(item, bounds) ==
    IF isShape(item)
    THEN IF bounds.ok
         THEN [ x |-> -(item.position.x - bounds.min.x + SHAPE_ATTACHMENT_PADDING),
                y |-> -(item.position.y - bounds.min.y + SHAPE_ATTACHMENT_PADDING) ]
         ELSE [x |-> 0, y |-> 0]
    ELSE [x |-> 0, y |-> 0]

NoBounds == [ok |-> FALSE, min |-> [x |-> 0, y |-> 0]]

\* buildAuroraEffect with the effect left at the origin instead of at the
\* parent's position.
buildAuroraEffectAtOrigin(newId, parentId, parent, config, bounds) ==
    [ id         |-> newId,
      attachedTo |-> parentId,
      position   |-> [x |-> 0, y |-> 0],
      rotation   |-> parent.rotation,
      scale      |-> parent.scale,
      visible    |-> parent.visible,
      layer      |-> "POST_PROCESS",
      uniforms   |-> getShaderUniforms(config, getCoordOffset(parent, bounds)),
      metadata   |-> [isEffect |-> TRUE, sourceItemId |-> parentId] ]

\* buildAuroraEffect with the back-reference naming the first item of the
\* scene instead of the parent.
buildAuroraEffectMistagged(newId, parentId, parent, config, bounds) ==
    [ id         |-> newId,
      attachedTo |-> parentId,
      position   |-> parent.position,
      rotation   |-> parent.rotation,
      scale      |-> parent.scale,
      visible    |-> parent.visible,
      layer      |-> "POST_PROCESS",
      uniforms   |-> getShaderUniforms(config, getCoordOffset(parent, bounds)),
      metadata   |-> [isEffect |-> TRUE, sourceItemId |-> "m1"] ]

\* newId is the id buildEffect() gives the new local item.
buildAuroraEffect(newId, parentId, parent, config, bounds) ==
    [ id         |-> newId,
      attachedTo |-> parentId,
      position   |-> parent.position,
      rotation   |-> parent.rotation,
      scale      |-> parent.scale,
      visible    |-> parent.visible,
      layer      |-> "POST_PROCESS",
      uniforms   |-> getShaderUniforms(config, getCoordOffset(parent, bounds)),
      metadata   |-> [isEffect |-> TRUE, sourceItemId |-> parentId] ]

VARIABLES
    scene,          \* the scene's items: id -> item (the external scene graph)
    effects,        \* the local items of the scene (set of effect records)
    snapshotCache,  \* source id -> snapshot (a Map: partial)
    pass,           \* the reconcileEffects calls in flight: slot -> frame
    started,        \* onSceneReady has run
    subscribed,     \* unsubItems holds a live onChange subscription
    edits,          \* mutations of the scene's items so far
    noops,          \* change notifications that altered nothing, so far
    fails,          \* failed external calls so far
    last,           \* the reconcileEffects call that returned in the last step
    prev,           \* what is remembered of the call that returned before
    life,           \* startEffectManager's closure and the calls it has in flight
    frame,          \* the shader: a pixel it is run on and the colour it returns;
                    \* or one getCoordOffset call with its item and its answer
    menu,           \* the settings popover (menu/main.ts)
    room,           \* the room metadata and the preset calls in flight on it
    lib             \* the preset library popover (main.ts)

vars == <<scene, effects, snapshotCache, pass, started, subscribed, edits, noops, fails, last, prev,
          life, frame, menu, room, lib>>

\* What the background script owns, and what the popovers and the shader own.
coreVars == <<scene, effects, snapshotCache, pass, started, subscribed, edits, noops, fails, last,
              prev, life>>
uiVars == <<frame, menu, room, lib>>

\* A part of the extension that is not open.
Closed == [open |-> FALSE]

\* ------------------------------------------------ frames of reconcileEffects
\* startEffectManager has been called and init() has run to its first await.
\*   init      where init() is: "isReady" (awaiting OBR.scene.isReady()),
\*             "onSceneReady" (awaiting its onSceneReady call), "done",
\*             "rejected" (its onSceneReady call threw)
\*   ready     the scene's readiness, as its last readiness event said
\*   readySub  unsubReady holds a live onReadyChange subscription
\*   getItems  the onSceneReady calls suspended at getItems (line 297):
\*             init's call, and the number of calls of the readiness handler
\*   td        the removeAllEffects call in flight, if any
\*   quiet     a not-ready event has been handled to its end and no ready
\*             event has come since
\*   shut      the cleanup function has been called
\*   events    readiness events so far
NoTeardown == [pc |-> "idle", ids |-> {}, by |-> "none"]

LifeStart ==
    [ init |-> "isReady", ready |-> TRUE, readySub |-> FALSE,
      getItems |-> [init |-> FALSE, handler |-> 0],
      td |-> NoTeardown, quiet |-> FALSE, shut |-> FALSE, events |-> 0 ]

NoSnap == <<>>                    \* snapshotCache.get of an absent key

CacheGet(cache, id) == IF MapHas(cache, id) THEN cache[id] ELSE NoSnap

Idle ==
    [ pc |-> "idle", items |-> EmptyMap, cont |-> "none",
      bySource |-> EmptyMap, todo |-> <<>>,
      idsToRemove |-> {}, effectsToAdd |-> {},
      deleteCalls |-> 0, addCalls |-> 0,
      failedAt |-> "none", outcome |-> "ok",
      \* what the properties need to know of the call's history
      overlapped |-> FALSE, cacheBefore |-> EmptyMap,
      eqAtVisit |-> {}, touched |-> {} ]

NoLast == [valid |-> FALSE]

InFlight == {p \in PassIds : pass[p].pc # "idle"}

\* auroraItems: the MAP-layer items whose metadata holds a valid config
AuroraIds(items) ==
    {i \in DOMAIN items : items[i].layer = "MAP" /\ isAuroraConfig(items[i].config)}

RECURSIVE FilterSeq(_, _)
FilterSeq(s, keep) ==
    IF s = <<>> THEN <<>>
    ELSE IF Head(s) \in keep THEN <<Head(s)>> \o FilterSeq(Tail(s), keep)
    ELSE FilterSeq(Tail(s), keep)

\* findAllEffects without its filter.
findAllLocalItems(local) == local

\* lines 65-69: the local items whose metadata holds the marker
findAllEffects(local) == {item \in local : "isEffect" \in DOMAIN item.metadata}

\* effectsBySource for a query result: the loop keeps, per source id, the
\* effect that comes last in the array getItems returned, and that order is
\* the scene graph's.
BySourceChoices(existing) ==
    LET tagged == {e \in existing : "sourceItemId" \in DOMAIN e.metadata}
        srcs == {e.metadata.sourceItemId : e \in tagged}
    IN {m \in [srcs -> tagged] : \A s \in srcs : m[s].metadata.sourceItemId = s}

\* line 250 without its second conjunct.
ShouldSkipCacheOnly(cached, snap, hasEffect) == cached = snap

\* line 250
ShouldSkipNegated(cached, snap, hasEffect) == cached = snap /\ ~hasEffect

ShouldSkip(cached, snap, hasEffect) == cached = snap /\ hasEffect

\* AfterLoop with addItems called first.
AfterLoopAddFirst(M) ==
    IF M.f.effectsToAdd # {}
    THEN [M EXCEPT !.f.pc = "add", !.f.addCalls = @ + 1]
    ELSE IF M.f.idsToRemove # {}
    THEN [M EXCEPT !.f.pc = "delete", !.f.deleteCalls = @ + 1]
    ELSE [M EXCEPT !.f.pc = "done"]

\* lines 273-279, up to the first call that is awaited
AfterLoop(M) ==
    IF M.f.idsToRemove # {}
    THEN [M EXCEPT !.f.pc = "delete", !.f.deleteCalls = @ + 1]
    ELSE IF M.f.effectsToAdd # {}
    THEN [M EXCEPT !.f.pc = "add", !.f.addCalls = @ + 1]
    ELSE [M EXCEPT !.f.pc = "done"]

\* The id buildEffect() gives a new item is one no item has had: of the ids
\* <<source, 1>>, <<source, 2>>, ... the first that is neither in the scene
\* nor held by a frame.
FreshId(src, used) ==
    <<src, CHOOSE k \in 1..(Cardinality(used) + 1) :
              /\ <<src, k>> \notin used
              /\ \A j \in 1..(k - 1) : <<src, j>> \in used>>

\* Built with the item dropped when getItemBounds failed.
BuiltUnlessBoundsFail(M, bounds) ==
    LET id == Head(M.f.todo)
        item == M.f.items[id]
        eff == buildAuroraEffect(FreshId(id, M.used), id, item, item.config, bounds)
    IN [ M EXCEPT !.cache = MapSet(M.cache, id, effectSnapshot(item.config, item)),
                  !.f = [M.f EXCEPT !.effectsToAdd = IF bounds.ok THEN @ \cup {eff} ELSE @,
                                    !.todo = Tail(@)] ]

\* lines 263 (after the await) and 268 for the item at the head of todo
Built(M, bounds) ==
    LET id == Head(M.f.todo)
        item == M.f.items[id]
        eff == buildAuroraEffect(FreshId(id, M.used), id, item, item.config, bounds)
    IN [ M EXCEPT !.cache = MapSet(M.cache, id, effectSnapshot(item.config, item)),
                  !.f = [M.f EXCEPT !.effectsToAdd = @ \cup {eff}, !.todo = Tail(@)] ]

\* lines 246-269, run until the loop ends or suspends in getItemBounds
RECURSIVE Loop(_)
Loop(M) ==
    IF M.f.todo = <<>> THEN AfterLoop(M)
    ELSE
      LET id == Head(M.f.todo)
          item == M.f.items[id]
          config == item.config
          snap == effectSnapshot(config, item)
          cached == CacheGet(M.cache, id)
          has == MapHas(M.f.bySource, id)
          f0 == [M.f EXCEPT !.eqAtVisit = IF cached = snap THEN @ \cup {id} ELSE @]
          f1 == [f0 EXCEPT !.idsToRemove = IF has THEN @ \cup {M.f.bySource[id].id} ELSE @,
                           !.touched = @ \cup {id}]
      IN IF ShouldSkip(cached, snap, has)
         THEN Loop([M EXCEPT !.f = [f0 EXCEPT !.todo = Tail(@)]])
         ELSE IF Truthy(config.e)
              THEN IF isShape(item)
                   THEN [M EXCEPT !.f = [f1 EXCEPT !.pc = "bounds"]]
                   ELSE Loop(Built([M EXCEPT !.f = f1], NoBounds))
              ELSE Loop([M EXCEPT !.cache = MapSet(M.cache, id, snap),
                                  !.f = [f1 EXCEPT !.todo = Tail(@)]])

\* lines 210-240 and on into the loop, once findAllEffects has answered
AfterQuery(M, by) ==
    LET f == M.f
        cache == M.cache
        aurora == AuroraIds(f.items)
        stale == (DOMAIN by) \ aurora
    IN Loop([ used |-> M.used,
              cache |-> [k \in (DOMAIN cache) \ stale |-> cache[k]],
              f |-> [f EXCEPT !.bySource = by,
                              !.todo = FilterSeq(ItemOrder, aurora),
                              !.idsToRemove = {by[s].id : s \in stale}] ])

\* The try block spans the whole body (lines 207-282): whichever call throws,
\* the catch clause logs and the function returns.
CatchAddOutside(step) == IF step = "add" THEN "thrown" ELSE "caught"

Catch(step) == "caught"

Failed(M, step) ==
    [M EXCEPT !.f = [M.f EXCEPT !.pc = "done", !.failedAt = step, !.outcome = Catch(step)]]

\* Every item id the scene or a frame holds.
UsedIds ==
    {e.id : e \in effects}
    \cup UNION {pass[p].idsToRemove \cup {e.id : e \in pass[p].effectsToAdd}
                \cup {pass[p].bySource[s].id : s \in DOMAIN pass[p].bySource}
                : p \in PassIds}

\* Frame p as it resumes, with the shared state it runs on.
Resume(p, pc) == [used |-> UsedIds, cache |-> snapshotCache, f |-> [pass[p] EXCEPT !.pc = pc]]

\* The frame M.f of call p has run to its next suspension, or to its end.
Commit(p, M) ==
    /\ snapshotCache' = M.cache
    /\ IF M.f.pc = "done"
       THEN /\ pass' = [pass EXCEPT ![p] = Idle]
            /\ last' = [valid |-> TRUE, f |-> M.f, prev |-> prev]
            /\ prev' = [valid |-> TRUE, items |-> M.f.items, failedAt |-> M.f.failedAt,
                        overlapped |-> M.f.overlapped, touched |-> M.f.touched]
            \* onSceneReady, lines 300-303; for init's call, init then goes on
            \* to line 311
            /\ subscribed' = (subscribed \/ (M.f.cont \in {"subscribe", "init"} /\ M.f.outcome # "thrown"))
            /\ life' = IF M.f.cont = "init" /\ M.f.outcome # "thrown"
                       THEN [life EXCEPT !.init = "done", !.readySub = TRUE]
                       ELSE life
       ELSE /\ pass' = [pass EXCEPT ![p] = M.f]
            /\ last' = NoLast
            /\ UNCHANGED <<prev, subscribed, life>>

\* StartPass handing reconcileEffects the items the scene held before the
\* notification instead of the items the notification delivers.
StartPassStale(items, cont) ==
    /\ InFlight # PassIds
    /\ pass' = [p \in PassIds |->
                  IF p = CHOOSE q \in PassIds \ InFlight : \A r \in PassIds \ InFlight : q <= r
                  THEN [Idle EXCEPT !.pc = "query", !.items = scene,
                                    !.cont = cont, !.overlapped = (InFlight # {}),
                                    !.cacheBefore = snapshotCache]
                  ELSE IF p \in InFlight THEN [pass[p] EXCEPT !.overlapped = TRUE]
                  ELSE pass[p]]

\* reconcileEffects(items) is called: it runs to `await findAllEffects()`.
StartPass(items, cont) ==
    /\ InFlight # PassIds
    /\ pass' = [p \in PassIds |->
                  IF p = CHOOSE q \in PassIds \ InFlight : \A r \in PassIds \ InFlight : q <= r
                  THEN [Idle EXCEPT !.pc = "query", !.items = items,
                                    !.cont = cont, !.overlapped = (InFlight # {}),
                                    !.cacheBefore = snapshotCache]
                  ELSE IF p \in InFlight THEN [pass[p] EXCEPT !.overlapped = TRUE]
                  ELSE pass[p]]

\* ----------------------------------------------------------------- actions
BaseItem(type) ==
    [ layer |-> "MAP", type |-> type,
      position |-> [x |-> 0, y |-> 0], rotation |-> 0,
      scale |-> [x |-> 1, y |-> 1], visible |-> TRUE,
      strokeWidth |-> IF type = "SHAPE" THEN 5 ELSE 0,
      width |-> IF type = "SHAPE" THEN 100 ELSE 0,
      height |-> IF type = "SHAPE" THEN 100 ELSE 0,
      config |-> JsUndefined ]

InitScenes ==
    {[i \in ItemIds |->
        [BaseItem(IF i = "m1" THEN "IMAGE" ELSE "SHAPE") EXCEPT !.config = c[i]]]
     : c \in [ItemIds -> {JsUndefined, DEFAULT_CONFIG}]}

Init ==
    /\ scene \in InitScenes
    /\ effects = {}
    /\ snapshotCache = EmptyMap
    /\ pass = [p \in PassIds |-> Idle]
    /\ started = FALSE
    /\ subscribed = FALSE
    /\ edits = 0
    /\ noops = 0
    /\ fails = 0
    /\ last = NoLast
    /\ prev = NoLast
    /\ life = LifeStart
    /\ frame = Closed /\ menu = Closed /\ room = Closed /\ lib = Closed

\* What the settings popover writes: the config it read, with b defaulted
\* (menu/main.ts readConfigFromItems, writeConfigToItems).
WithB(c) == [k \in (DOMAIN c) \cup {"b"} |-> IF k = "b" THEN Nullish(c, "b", Num(0)) ELSE c[k]]

\* The mutations the model lets the participants make to item i.
EditKinds(i) == IF i = "m1" THEN {"layer", "move", "config"} ELSE {"toggle"}

LayerEdits(items, i) == {[items EXCEPT ![i].layer = l] : l \in Layers \ {items[i].layer}}

MoveEdits(items, i) ==
    {[items EXCEPT ![i].position.x = x] : x \in PosXs \ {items[i].position.x}}

\* The Enabled toggle of the settings popover (shown for MAP-layer items
\* that hold a config).
ToggleEdits(items, i) ==
    IF items[i].layer = "MAP" /\ items[i].config # JsUndefined
    THEN {[items EXCEPT ![i].config = [WithB(@) EXCEPT !.e = Bool(~Truthy(@))]]}
    ELSE {}

\* "Add Aurora" (createAuroraMenu.ts), the saturation slider and "Remove
\* Aurora" (menu/main.ts), all offered for MAP-layer items only.
ConfigEdits(items, i) ==
    IF items[i].layer # "MAP" THEN {}
    ELSE IF items[i].config = JsUndefined
    THEN {[items EXCEPT ![i].config = DEFAULT_CONFIG]}
    ELSE {[items EXCEPT ![i].config = JsUndefined]}
         \cup {[items EXCEPT ![i].config = [WithB(@) EXCEPT !.s = Num(s)]]
               : s \in SatValues \ {items[i].config.s.num}}

\* The item sets one mutation away from `items`.
Edits(items) ==
    UNION {
      (IF "layer" \in EditKinds(i) THEN LayerEdits(items, i) ELSE {})
      \cup (IF "move" \in EditKinds(i) THEN MoveEdits(items, i) ELSE {})
      \cup (IF {"toggle", "config"} \cap EditKinds(i) # {} THEN ToggleEdits(items, i) ELSE {})
      \cup (IF "config" \in EditKinds(i) THEN ConfigEdits(items, i) ELSE {})
      : i \in ItemIds }

\* init / onReadyChange(true): getItems has answered and onSceneReady calls
\* reconcileEffects; the subscription follows when that call returns.
onSceneReady ==
    /\ ~started
    /\ started' = TRUE
    /\ StartPass(scene, "subscribe")
    /\ last' = NoLast
    /\ UNCHANGED <<scene, effects, snapshotCache, subscribed, edits, noops, fails, prev, life>>
    /\ UNCHANGED uiVars

\* The scene's items change (any mutation, or none of the fields read here);
\* a live subscription calls reconcileEffects with the new item set.
onChange ==
    /\ \E items \in Edits(scene) \cup {scene} :
         /\ IF items = scene
            THEN subscribed /\ noops < MaxNoops /\ noops' = noops + 1 /\ edits' = edits
            ELSE edits < MaxEdits /\ edits' = edits + 1 /\ noops' = noops
         /\ scene' = items
         /\ IF subscribed THEN StartPass(items, "none") ELSE UNCHANGED pass
    /\ last' = NoLast
    /\ UNCHANGED <<effects, snapshotCache, started, subscribed, fails, prev, life>>
    /\ UNCHANGED uiVars

\* findAllEffects answers (line 208).
QueryReturn(p) ==
    /\ pass[p].pc = "query"
    /\ \E by \in BySourceChoices(findAllEffects(effects)) :
         Commit(p, AfterQuery(Resume(p, "loop"), by))
    /\ UNCHANGED <<scene, effects, started, edits, noops, fails>>
    /\ UNCHANGED uiVars

\* getItemBounds answers, or fails and getCoordOffset falls back to zero.
BoundsReturn(p) ==
    /\ pass[p].pc = "bounds"
    /\ \E ok \in BOOLEAN, m \in BoundsMins :
         /\ ok \/ fails < MaxFailures
         /\ fails' = IF ok THEN fails ELSE fails + 1
         /\ Commit(p, Loop(Built(Resume(p, "loop"), [ok |-> ok, min |-> [x |-> m, y |-> m]])))
    /\ UNCHANGED <<scene, effects, started, edits, noops>>
    /\ UNCHANGED uiVars

\* deleteItems answers (line 274).
DeleteReturn(p) ==
    /\ pass[p].pc = "delete"
    /\ effects' = {e \in effects : e.id \notin pass[p].idsToRemove}
    /\ Commit(p, IF pass[p].effectsToAdd # {}
                 THEN [Resume(p, "add") EXCEPT !.f.addCalls = @ + 1]
                 ELSE Resume(p, "done"))
    /\ UNCHANGED <<scene, started, edits, noops, fails>>
    /\ UNCHANGED uiVars

\* addItems answers (line 278).
AddReturn(p) ==
    /\ pass[p].pc = "add"
    /\ effects' = effects \cup pass[p].effectsToAdd
    /\ Commit(p, Resume(p, "done"))
    /\ UNCHANGED <<scene, started, edits, noops, fails>>
    /\ UNCHANGED uiVars

\* findAllEffects, deleteItems or addItems rejects: control goes to the
\* catch clause (lines 280-282).
CallFails(p) ==
    /\ pass[p].pc \in {"query", "delete", "add"}
    /\ fails < MaxFailures
    /\ fails' = fails + 1
    /\ Commit(p, Failed(Resume(p, "done"), pass[p].pc))
    /\ UNCHANGED <<scene, effects, started, edits, noops>>
    /\ UNCHANGED uiVars

Next ==
    \/ onSceneReady
    \/ onChange
    \/ \E p \in PassIds : QueryReturn(p)
    \/ \E p \in PassIds : BoundsReturn(p)
    \/ \E p \in PassIds : DeleteReturn(p)
    \/ \E p \in PassIds : AddReturn(p)
    \/ \E p \in PassIds : CallFails(p)

Spec == Init /\ [][Next]_vars

\* ------------------------------------------------------------- lifecycle
\* startEffectManager as a whole: init (lines 306-320), the readiness
\* handler (lines 311-319), removeAllEffects (lines 72-78) and the cleanup
\* function (lines 324-328), around the reconcileEffects calls above.
\* One scene: the image m1 without config, the shape m2 with the default one.
LifeScene ==
    [i \in ItemIds |->
        [BaseItem(IF i = "m1" THEN "IMAGE" ELSE "SHAPE")
           EXCEPT !.config = IF i = "m1" THEN JsUndefined ELSE DEFAULT_CONFIG]]

InitLife ==
    /\ scene = LifeScene
    /\ effects = {}
    /\ snapshotCache = EmptyMap
    /\ pass = [p \in PassIds |-> Idle]
    /\ started = TRUE
    /\ subscribed = FALSE
    /\ edits = MaxEdits - LifeEdits
    /\ noops = MaxNoops - LifeNoops
    /\ fails = 0
    /\ last = NoLast
    /\ prev = NoLast
    /\ life \in {[LifeStart EXCEPT !.ready = r] : r \in BOOLEAN}
    /\ frame = Closed /\ menu = Closed /\ room = Closed /\ lib = Closed

\* removeAllEffects has run to its end (cache cleared, or not: its caller
\* swallows a rejection, lines 317 and 327).
TeardownEnds ==
    [life EXCEPT !.td = NoTeardown,
                 !.quiet = @ \/ (life.td.by = "notready" /\ ~life.ready)]

\* `await OBR.scene.isReady()` answers (line 307).
isReadyReturn ==
    /\ life.init = "isReady"
    /\ life' = IF life.ready
               THEN [life EXCEPT !.init = "onSceneReady", !.getItems.init = TRUE]
               ELSE [life EXCEPT !.init = "done", !.readySub = TRUE]
    /\ last' = NoLast
    /\ UNCHANGED <<scene, effects, snapshotCache, pass, started, subscribed, edits, noops, fails, prev>>
    /\ UNCHANGED uiVars

\* `await OBR.scene.items.getItems()` answers in an onSceneReady call, which
\* goes on to call reconcileEffects (lines 297-298).
getItemsReturn ==
    /\ \E who \in {"init", "handler"} :
         /\ IF who = "init" THEN life.getItems.init ELSE life.getItems.handler > 0
         /\ StartPass(scene, IF who = "init" THEN "init" ELSE "subscribe")
         /\ life' = IF who = "init"
                    THEN [life EXCEPT !.getItems.init = FALSE]
                    ELSE [life EXCEPT !.getItems.handler = @ - 1]
    /\ last' = NoLast
    /\ UNCHANGED <<scene, effects, snapshotCache, started, subscribed, edits, noops, fails, prev>>
    /\ UNCHANGED uiVars

\* isReady or getItems rejects.  Nothing catches it: init ends there
\* (line 322 drops its promise), a handler's call just ends.
startupCallFails ==
    /\ fails < MaxFailures
    /\ fails' = fails + 1
    /\ \/ /\ life.init = "isReady"
          /\ life' = [life EXCEPT !.init = "rejected"]
       \/ /\ life.getItems.init
          /\ life' = [life EXCEPT !.init = "rejected", !.getItems.init = FALSE]
       \/ /\ life.getItems.handler > 0
          /\ life' = [life EXCEPT !.getItems.handler = @ - 1]
    /\ last' = NoLast
    /\ UNCHANGED <<scene, effects, snapshotCache, pass, started, subscribed, edits, noops, prev>>
    /\ UNCHANGED uiVars

\* The scene's readiness changes; a live onReadyChange subscription runs the
\* handler of lines 311-319 to its first await.
readyChange ==
    /\ life.events < MaxReadyEvents
    /\ LET now == [life EXCEPT !.ready = ~@, !.events = @ + 1,
                               !.quiet = IF life.ready THEN @ ELSE FALSE]
       IN IF ~life.readySub
          THEN life' = now /\ UNCHANGED subscribed
          ELSE IF now.ready
          THEN life' = [now EXCEPT !.getItems.handler = @ + 1] /\ UNCHANGED subscribed
          ELSE /\ life.td.pc = "idle"
               /\ subscribed' = FALSE
               /\ life' = [now EXCEPT !.td = [pc |-> "query", ids |-> {}, by |-> "notready"]]
    /\ last' = NoLast
    /\ UNCHANGED <<scene, effects, snapshotCache, pass, started, edits, noops, fails, prev>>
    /\ UNCHANGED uiVars

\* The cleanup function startEffectManager returned is called (lines 324-328).
shutdown ==
    /\ ~life.shut
    /\ life.td.pc = "idle"
    /\ subscribed' = FALSE
    /\ life' = [life EXCEPT !.shut = TRUE, !.readySub = FALSE,
                            !.td = [pc |-> "query", ids |-> {}, by |-> "shutdown"]]
    /\ last' = NoLast
    /\ UNCHANGED <<scene, effects, snapshotCache, pass, started, edits, noops, fails, prev>>
    /\ UNCHANGED uiVars

\* removeAllEffects: findAllEffects answers (lines 73-77).
teardownQueryReturn ==
    /\ life.td.pc = "query"
    /\ IF findAllEffects(effects) = {}
       THEN snapshotCache' = EmptyMap /\ life' = TeardownEnds
       ELSE /\ life' = [life EXCEPT !.td.pc = "delete",
                                    !.td.ids = {e.id : e \in findAllEffects(effects)}]
            /\ UNCHANGED snapshotCache
    /\ last' = NoLast
    /\ UNCHANGED <<scene, effects, pass, started, subscribed, edits, noops, fails, prev>>
    /\ UNCHANGED uiVars

\* removeAllEffects: deleteItems answers (lines 75-77).
teardownDeleteReturn ==
    /\ life.td.pc = "delete"
    /\ effects' = {e \in effects : e.id \notin life.td.ids}
    /\ snapshotCache' = EmptyMap
    /\ life' = TeardownEnds
    /\ last' = NoLast
    /\ UNCHANGED <<scene, pass, started, subscribed, edits, noops, fails, prev>>
    /\ UNCHANGED uiVars

\* removeAllEffects: findAllEffects or deleteItems rejects; line 77 is not
\* reached and the caller's catch swallows the rejection.
teardownCallFails ==
    /\ life.td.pc \in {"query", "delete"}
    /\ fails < MaxFailures
    /\ fails' = fails + 1
    /\ life' = TeardownEnds
    /\ last' = NoLast
    /\ UNCHANGED <<scene, effects, snapshotCache, pass, started, subscribed, edits, noops, prev>>
    /\ UNCHANGED uiVars

NextLife ==
    \/ isReadyReturn
    \/ getItemsReturn
    \/ startupCallFails
    \/ readyChange
    \/ shutdown
    \/ teardownQueryReturn
    \/ teardownDeleteReturn
    \/ teardownCallFails
    \/ onChange
    \/ \E p \in PassIds : QueryReturn(p)
    \/ \E p \in PassIds : BoundsReturn(p)
    \/ \E p \in PassIds : DeleteReturn(p)
    \/ \E p \in PassIds : AddReturn(p)
    \/ \E p \in PassIds : CallFails(p)

SpecLife == InitLife /\ [][NextLife]_vars

\* ------------------------------------------------------ other local items
\* The lifecycle above in a scene whose local items include one that is not
\* Aurora's: an attachment another extension has put on the shape m2.
OtherLocalItem ==
    [ id |-> <<"other", 1>>, attachedTo |-> "m2", layer |-> "POST_PROCESS",
      metadata |-> [otherExtension |-> TRUE] ]

InitLocal ==
    /\ scene = LifeScene
    /\ effects = {OtherLocalItem}
    /\ snapshotCache = EmptyMap
    /\ pass = [p \in PassIds |-> Idle]
    /\ started = TRUE
    /\ subscribed = FALSE
    /\ edits = MaxEdits - LifeEdits
    /\ noops = MaxNoops - LifeNoops
    /\ fails = 0
    /\ last = NoLast
    /\ prev = NoLast
    /\ life \in {[LifeStart EXCEPT !.ready = r] : r \in BOOLEAN}
    /\ frame = Closed /\ menu = Closed /\ room = Closed /\ lib = Closed

SpecLocal == InitLocal /\ [][NextLife]_vars

\* ------------------------------------------------------- stored configs
\* What the reconciler does with whatever is stored under the config key.
\* Item metadata is shared storage: any client or extension can write any
\* JSON value there, and the notification delivers it to reconcileEffects.
ConfigFields == {"s", "l", "h", "o", "e", "b", "f", "fi"}
NumberFields == {"s", "l", "h", "o", "b", "f"}

\* A config with all eight fields, each of its own type.
FullConfig ==
    [k \in {"typ"} \cup ConfigFields |->
        IF k = "typ" THEN "object"
        ELSE IF k \in {"b", "f"} THEN Num(0)
        ELSE IF k = "fi" THEN Bool(FALSE)
        ELSE DEFAULT_CONFIG[k]]

\* Values of another type than field k has.
WrongValues(k) == IF k \in NumberFields THEN {Str("x"), Bool(TRUE)} ELSE {Str("x"), Num(1)}

\* FullConfig with one field of the wrong type; null; values that are no object.
MalformedValues ==
    UNION {{[FullConfig EXCEPT ![k] = v] : v \in WrongValues(k)} : k \in ConfigFields}
    \cup {JsNull, Str("x"), Num(7)}

StoredValues == {JsUndefined, DEFAULT_CONFIG, FullConfig} \cup MalformedValues

InitTypes ==
    /\ scene \in {[i \in ItemIds |->
                     [BaseItem(IF i = "m1" THEN "IMAGE" ELSE "SHAPE") EXCEPT !.config = c[i]]]
                  : c \in [ItemIds -> StoredValues]}
    /\ scene["m2"].config \in {JsUndefined, DEFAULT_CONFIG}
    /\ effects = {}
    /\ snapshotCache = EmptyMap
    /\ pass = [p \in PassIds |-> Idle]
    /\ started = FALSE
    /\ subscribed = FALSE
    /\ edits = MaxEdits - 1
    /\ noops = MaxNoops
    /\ fails = 0
    /\ last = NoLast
    /\ prev = NoLast
    /\ life = LifeStart
    /\ frame = Closed /\ menu = Closed /\ room = Closed /\ lib = Closed

\* Some client stores v under the config key of m1; a live subscription
\* calls reconcileEffects with the new item set (lines 300-302).
onChangeStored ==
    /\ edits < MaxEdits
    /\ \E v \in StoredValues \ {scene["m1"].config} :
         LET items == [scene EXCEPT !["m1"].config = v]
         IN /\ scene' = items
            /\ IF subscribed THEN StartPass(items, "none") ELSE UNCHANGED pass
    /\ edits' = edits + 1
    /\ last' = NoLast
    /\ UNCHANGED <<effects, snapshotCache, started, subscribed, noops, fails, prev, life>>
    /\ UNCHANGED uiVars

NextTypes ==
    \/ onSceneReady
    \/ onChangeStored
    \/ \E p \in PassIds : QueryReturn(p)
    \/ \E p \in PassIds : BoundsReturn(p)
    \/ \E p \in PassIds : DeleteReturn(p)
    \/ \E p \in PassIds : AddReturn(p)
    \/ \E p \in PassIds : CallFails(p)

SpecTypes == InitTypes /\ [][NextTypes]_vars

\* --------------------------------------------------------- config fields
\* Single-field changes of stored configs that stay well typed.  The popover
\* writes s, l, h, o, e and b (menu/main.ts); f and fi are read by
\* getShaderUniforms and come with the stored object.
OtherValue(k) ==
    IF k \in {"s", "l"} THEN Num(50)
    ELSE IF k = "h" THEN Num(90)
    ELSE IF k = "o" THEN Num(30)
    ELSE IF k = "b" THEN Num(1)
    ELSE IF k = "f" THEN Num(50)
    ELSE Bool(k = "fi")

\* The configs one field away from c.
FieldEdits(c) ==
    UNION {{[c EXCEPT ![k] = FullConfig[k]], [c EXCEPT ![k] = OtherValue(k)]}
           : k \in ConfigFields} \ {c}

InitFields ==
    /\ scene = [i \in ItemIds |->
                  [BaseItem(IF i = "m1" THEN "IMAGE" ELSE "SHAPE") EXCEPT !.config = FullConfig]]
    /\ effects = {}
    /\ snapshotCache = EmptyMap
    /\ pass = [p \in PassIds |-> Idle]
    /\ started = FALSE
    /\ subscribed = FALSE
    /\ edits = 0
    /\ noops = MaxNoops
    /\ fails = 0
    /\ last = NoLast
    /\ prev = NoLast
    /\ life = LifeStart
    /\ frame = Closed /\ menu = Closed /\ room = Closed /\ lib = Closed

\* One field of the stored config of item i changes; a live subscription
\* calls reconcileEffects with the new item set (lines 300-302).
onChangeField ==
    /\ edits < MaxEdits
    /\ \E i \in ItemIds : \E c \in FieldEdits(scene[i].config) :
         LET items == [scene EXCEPT ![i].config = c]
         IN /\ scene' = items
            /\ IF subscribed THEN StartPass(items, "none") ELSE UNCHANGED pass
    /\ edits' = edits + 1
    /\ last' = NoLast
    /\ UNCHANGED <<effects, snapshotCache, started, subscribed, noops, fails, prev, life>>
    /\ UNCHANGED uiVars

NextFields ==
    \/ onSceneReady
    \/ onChangeField
    \/ \E p \in PassIds : QueryReturn(p)
    \/ \E p \in PassIds : BoundsReturn(p)
    \/ \E p \in PassIds : DeleteReturn(p)
    \/ \E p \in PassIds : AddReturn(p)
    \/ \E p \in PassIds : CallFails(p)

SpecFields == InitFields /\ [][NextFields]_vars

\* ------------------------------------------------ item-change subscriptions
\* startEffectManager (lines 292-329) with the subscriptions it makes told
\* apart: every OBR.scene.items.onChange call of line 301 makes a new
\* subscription, numbered in order, and `live` holds those not yet
\* unsubscribed.
\*   init        where init() is, as in LifeStart
\*   unsubItems  the subscription the variable of line 293 refers to; 0 is null
\*   unsubReady  unsubReady holds a live onReadyChange subscription
\*   made        subscriptions made so far
\*   atGetItems  onSceneReady calls of the readiness handler awaiting getItems
\*   atReconcile the same, awaiting reconcileEffects
\*   initAt      where init's own onSceneReady call is
MaxSubEvents == 4      \* readiness events

SubsStart ==
    [ open |-> TRUE, init |-> "isReady", unsubItems |-> 0, unsubReady |-> FALSE,
      live |-> {}, made |-> 0, atGetItems |-> 0, atReconcile |-> 0,
      initAt |-> "none", shut |-> FALSE, events |-> 0 ]

InitSubs ==
    /\ scene = EmptyMap
    /\ effects = {}
    /\ snapshotCache = EmptyMap
    /\ pass = [p \in PassIds |-> Idle]
    /\ started = FALSE
    /\ subscribed = FALSE
    /\ edits = 0
    /\ noops = 0
    /\ fails = 0
    /\ last = NoLast
    /\ prev = NoLast
    /\ life = LifeStart
    /\ menu = Closed /\ room = Closed /\ lib = Closed
    /\ frame = SubsStart

\* unsubItems?.()
unsubItemsCall(s) == [s EXCEPT !.live = @ \ {s.unsubItems}]

\* Lines 300-303 without the call of line 300.
resubscribeKeepingOld(s) ==
    [s EXCEPT !.made = @ + 1, !.unsubItems = s.made + 1, !.live = @ \cup {s.made + 1}]

\* lines 300-303
resubscribe(s) ==
    [unsubItemsCall(s) EXCEPT !.made = @ + 1, !.unsubItems = s.made + 1,
                              !.live = @ \cup {s.made + 1}]

\* line 307: isReady answers; with a ready scene init calls onSceneReady,
\* otherwise it goes on to line 311.
subsIsReadyReturn ==
    /\ frame.open /\ frame.init = "isReady"
    /\ \E ready \in BOOLEAN :
         frame' = IF ready
                  THEN [frame EXCEPT !.init = "onSceneReady", !.initAt = "getItems"]
                  ELSE [frame EXCEPT !.init = "done", !.unsubReady = TRUE]
    /\ UNCHANGED coreVars
    /\ UNCHANGED <<menu, room, lib>>

\* line 297: getItems answers one of the onSceneReady calls; the call goes on
\* to reconcileEffects.
subsGetItemsReturn ==
    /\ frame.open
    /\ \/ /\ frame.initAt = "getItems"
          /\ frame' = [frame EXCEPT !.initAt = "reconcile"]
       \/ /\ frame.atGetItems > 0
          /\ frame' = [frame EXCEPT !.atGetItems = @ - 1, !.atReconcile = @ + 1]
    /\ UNCHANGED coreVars
    /\ UNCHANGED <<menu, room, lib>>

\* isReady or getItems rejects: the call it was awaited in ends there.
subsCallFails ==
    /\ frame.open
    /\ \/ /\ frame.init = "isReady"
          /\ frame' = [frame EXCEPT !.init = "rejected"]
       \/ /\ frame.initAt = "getItems"
          /\ frame' = [frame EXCEPT !.init = "rejected", !.initAt = "none"]
       \/ /\ frame.atGetItems > 0
          /\ frame' = [frame EXCEPT !.atGetItems = @ - 1]
    /\ UNCHANGED coreVars
    /\ UNCHANGED <<menu, room, lib>>

\* line 298: reconcileEffects returns (it never throws) and the call runs
\* lines 300-303; init's call returns into line 311.
subsReconcileReturn ==
    /\ frame.open
    /\ \/ /\ frame.initAt = "reconcile"
          /\ frame' = [resubscribe(frame) EXCEPT !.initAt = "none", !.init = "done",
                                                 !.unsubReady = TRUE]
       \/ /\ frame.atReconcile > 0
          /\ frame' = [resubscribe(frame) EXCEPT !.atReconcile = @ - 1]
    /\ UNCHANGED coreVars
    /\ UNCHANGED <<menu, room, lib>>

\* lines 311-319: a readiness event reaches the handler.
subsReadyChange ==
    /\ frame.open /\ frame.unsubReady /\ frame.events < MaxSubEvents
    /\ \E ready \in BOOLEAN :
         frame' = IF ready
                  THEN [frame EXCEPT !.atGetItems = @ + 1, !.events = @ + 1]
                  ELSE [unsubItemsCall(frame) EXCEPT !.unsubItems = 0, !.events = @ + 1]
    /\ UNCHANGED coreVars
    /\ UNCHANGED <<menu, room, lib>>

\* lines 324-328: the cleanup function is called.
subsCleanup ==
    /\ frame.open /\ ~frame.shut
    /\ frame' = [unsubItemsCall(frame) EXCEPT !.unsubReady = FALSE, !.shut = TRUE]
    /\ UNCHANGED coreVars
    /\ UNCHANGED <<menu, room, lib>>

NextSubs ==
    \/ subsIsReadyReturn
    \/ subsGetItemsReturn
    \/ subsCallFails
    \/ subsReconcileReturn
    \/ subsReadyChange
    \/ subsCleanup

SpecSubs == InitSubs /\ [][NextSubs]_vars

\* -------------------------------------------------------- coordinate offset
\* getCoordOffset (lines 114-127) called on its own, for items of every kind
\* at several positions; getItemBounds answers with some minimum, or rejects.
OffsetItems ==
    {[BaseItem(type) EXCEPT !.position = [x |-> x, y |-> y]]
       : type \in {"IMAGE", "SHAPE", "TEXT", "CURVE"},
         x \in {0, 10, -15}, y \in {0, 20, -30}}

OffsetBoundsMins == {[x |-> x, y |-> y] : x \in BoundsMins, y \in {-57, -80}}

NoOffset == [x |-> 0, y |-> 0]

InitOffset ==
    /\ scene = EmptyMap
    /\ effects = {}
    /\ snapshotCache = EmptyMap
    /\ pass = [p \in PassIds |-> Idle]
    /\ started = FALSE
    /\ subscribed = FALSE
    /\ edits = 0
    /\ noops = 0
    /\ fails = 0
    /\ last = NoLast
    /\ prev = NoLast
    /\ life = LifeStart
    /\ menu = Closed /\ room = Closed /\ lib = Closed
    /\ frame \in [open : {TRUE}, item : OffsetItems, pc : {"called"}, queries : {0},
                  bounds : {NoBounds}, offset : {NoOffset}]

\* line 115: a shape awaits getItemBounds (line 117); any other item gets
\* the zero offset of line 126.
getCoordOffsetCall ==
    /\ frame.open /\ frame.pc = "called"
    /\ frame' = IF isShape(frame.item)
                THEN [frame EXCEPT !.pc = "getItemBounds", !.queries = @ + 1]
                ELSE [frame EXCEPT !.pc = "returned",
                                   !.offset = getCoordOffset(frame.item, NoBounds)]
    /\ UNCHANGED coreVars
    /\ UNCHANGED <<menu, room, lib>>

\* getItemBounds answers (lines 117-121).
getItemBoundsReturn ==
    /\ frame.open /\ frame.pc = "getItemBounds"
    /\ \E min \in OffsetBoundsMins :
         LET bounds == [ok |-> TRUE, min |-> min]
         IN frame' = [frame EXCEPT !.pc = "returned", !.bounds = bounds,
                                   !.offset = getCoordOffset(frame.item, bounds)]
    /\ UNCHANGED coreVars
    /\ UNCHANGED <<menu, room, lib>>

\* getItemBounds rejects (lines 122-124).
getItemBoundsFails ==
    /\ frame.open /\ frame.pc = "getItemBounds"
    /\ frame' = [frame EXCEPT !.pc = "returned", !.bounds = NoBounds,
                              !.offset = getCoordOffset(frame.item, NoBounds)]
    /\ UNCHANGED coreVars
    /\ UNCHANGED <<menu, room, lib>>

NextOffset ==
    \/ getCoordOffsetCall
    \/ getItemBoundsReturn
    \/ getItemBoundsFails

SpecOffset == InitOffset /\ [][NextOffset]_vars

\* ---------------------------------------------------------------- shader
\* The SkSL program of getShaderCode (shader.ts lines 116-261), run on one
\* pixel.  Floats are kept in thousandths; the inputs below are chosen so
\* that every quotient taken is exact.
Unit == 1000

\* a / b, in thousandths
Quot(a, b) == (Unit * a) \div b

\* The value of a packed uniform a / b.
Float(d) == Quot(d[1].num, d[2])

ShaderItemSize == [x |-> 200, y |-> 100]
ShaderGeometry == [coordOffset |-> [x |-> 0, y |-> 0], itemSize |-> ShaderItemSize, shapeType |-> 0]

\* Scenario A, and a config that grades.
ShaderConfigs == {FullConfig, [FullConfig EXCEPT !.s = Num(50), !.o = Num(30), !.h = Num(90)]}
ShaderCoords == {[x |-> x, y |-> y] : x \in {0, 50, 200}, y \in {0, 50}}
Channels == {0, Unit \div 2, Unit}
Pixels == [r : Channels, g : Channels, b : Channels, a : {Unit \div 2, Unit}]

NoColour == [r |-> -1, g |-> -1, b |-> -1, a |-> -1]

\* half4 main(vec2 coord), lines 220-260.  color is what scene.eval(uv)
\* returns.  The statements of lines 223-247 compute locals only (hsv,
\* adjusted, tint, blended, graded, fade, result); the first return
\* statement is the one at line 256, and the one at line 258 follows it.
main(coord, color, uniforms) ==
    LET saturation == Float(uniforms.saturation)
        lightness == Float(uniforms.lightness)
        opacity == Float(uniforms.opacity)
        graded == <<"mix", <<"adjusted", color, saturation, lightness>>, "blended", opacity>>
        result == <<"mix", color, graded, "fade">>
        dbg == [x |-> Quot(coord.x, uniforms.itemSize.x), y |-> Quot(coord.y, uniforms.itemSize.y)]
    IN [r |-> dbg.x, g |-> dbg.y, b |-> 0, a |-> Unit]

InitShader ==
    /\ scene = EmptyMap
    /\ effects = {}
    /\ snapshotCache = EmptyMap
    /\ pass = [p \in PassIds |-> Idle]
    /\ started = FALSE
    /\ subscribed = FALSE
    /\ edits = 0
    /\ noops = 0
    /\ fails = 0
    /\ last = NoLast
    /\ prev = NoLast
    /\ life = LifeStart
    /\ menu = Closed /\ room = Closed /\ lib = Closed
    /\ frame \in [open : {TRUE}, coord : ShaderCoords, color : Pixels,
                   uniforms : {getShaderUniforms(c, ShaderGeometry) : c \in ShaderConfigs},
                   out : {NoColour}]

\* The renderer runs the program on the pixel.
shaderMain ==
    /\ frame.open /\ frame.out = NoColour
    /\ frame' = [frame EXCEPT !.out = main(frame.coord, frame.color, frame.uniforms)]
    /\ UNCHANGED coreVars
    /\ UNCHANGED <<menu, room, lib>>

\* The renderer goes on to the pixel beside it.
shaderNextPixel ==
    /\ frame.open /\ frame.out # NoColour
    /\ \E c \in ShaderCoords :
         /\ c.y = frame.coord.y /\ c.x > frame.coord.x
         /\ \A d \in ShaderCoords : d.y = c.y /\ d.x > frame.coord.x => c.x <= d.x
         /\ frame' = [frame EXCEPT !.coord = c, !.out = NoColour]
    /\ UNCHANGED coreVars
    /\ UNCHANGED <<menu, room, lib>>

NextShader ==
    \/ shaderMain
    \/ shaderNextPixel

SpecShader == InitShader /\ [][NextShader]_vars

\* -------------------------------------------------------------- feather
\* computeFeather (shader.ts lines 187-218) on one pixel of an item, run once
\* with the item's invert toggle off and once with it on.  Coordinates are
\* whole scene units; factors are in thousandths, rounded down.
abs(a) == IF a < 0 THEN -a ELSE a
min(a, b) == IF a <= b THEN a ELSE b
clamp(x, lo, hi) == IF x < lo THEN lo ELSE IF x > hi THEN hi ELSE x

\* step(edge, x): 0.0 if x < edge, else 1.0
step(edge, x) == IF x < edge THEN 0 ELSE Unit

\* mix(a, b, t) = a * (1 - t) + b * t
mix(a, b, t) == (a * (Unit - t) + b * t) \div Unit

\* smoothstep(edge0, edge1, x)
smoothstep(edge0, edge1, x) ==
    LET t == clamp(Quot(x - edge0, edge1 - edge0), 0, Unit)
    IN (t * t * (3 * Unit - 2 * t)) \div (Unit * Unit)

\* length(v) of a vector given in thousandths
length(v) ==
    LET sq == v.x * v.x + v.y * v.y
    IN CHOOSE n \in 0..(2 * Unit) : n * n <= sq /\ sq < (n + 1) * (n + 1)

computeFeather(coord, uniforms) ==
    LET feather == Float(uniforms.feather)
        invertFeather == uniforms.invertFeather * Unit
        shapeType == uniforms.shapeType.num * Unit
        halfSize == [x |-> uniforms.itemSize.x \div 2, y |-> uniforms.itemSize.y \div 2]
        centre == halfSize
        isCircle == (step(Unit \div 2, shapeType) * step(shapeType, (3 * Unit) \div 2)) \div Unit
        norm == [x |-> Quot(coord.x - centre.x, halfSize.x),
                 y |-> Quot(coord.y - centre.y, halfSize.y)]
        ellipseNorm == length(norm)
        distFromEdge == [x |-> halfSize.x - abs(coord.x - centre.x),
                         y |-> halfSize.y - abs(coord.y - centre.y)]
        minHalf == min(halfSize.x, halfSize.y)
        rectNorm == Unit - Quot(min(distFromEdge.x, distFromEdge.y), minHalf)
        edgeNorm == mix(rectNorm, ellipseNorm, isCircle)
        innerEdge == Unit - feather
        fade == Unit - smoothstep(innerEdge, Unit, edgeNorm)
    IN IF feather <= 0 THEN Unit
       ELSE mix(fade, Unit - fade, invertFeather)

FeatherValues == {0, 50, 100}
FeatherShapeTypes == {0, 1}
FeatherCoords == {[x |-> x, y |-> y] : x \in {0, 50, 100, 150, 200}, y \in {0, 25, 50}}
NoFade == -1

InitFeather ==
    /\ scene = EmptyMap
    /\ effects = {}
    /\ snapshotCache = EmptyMap
    /\ pass = [p \in PassIds |-> Idle]
    /\ started = FALSE
    /\ subscribed = FALSE
    /\ edits = 0
    /\ noops = 0
    /\ fails = 0
    /\ last = NoLast
    /\ prev = NoLast
    /\ life = LifeStart
    /\ menu = Closed /\ room = Closed /\ lib = Closed
    /\ frame \in [open : {TRUE}, coord : FeatherCoords,
                   config : {[FullConfig EXCEPT !.f = Num(f)] : f \in FeatherValues},
                   geometry : {[ShaderGeometry EXCEPT !.shapeType = t] : t \in FeatherShapeTypes},
                   plain : {NoFade}, inverted : {NoFade}]

\* The renderer evaluates the feather mask of the pixel with the effect built
\* from the config whose invert toggle is off.
featherPlain ==
    /\ frame.open /\ frame.plain = NoFade
    /\ LET uniforms == getShaderUniforms([frame.config EXCEPT !.fi = Bool(FALSE)], frame.geometry)
       IN frame' = [frame EXCEPT !.plain = computeFeather(frame.coord, uniforms)]
    /\ UNCHANGED coreVars
    /\ UNCHANGED <<menu, room, lib>>

\* The same, with the invert toggle on.
featherInverted ==
    /\ frame.open /\ frame.inverted = NoFade
    /\ LET uniforms == getShaderUniforms([frame.config EXCEPT !.fi = Bool(TRUE)], frame.geometry)
       IN frame' = [frame EXCEPT !.inverted = computeFeather(frame.coord, uniforms)]
    /\ UNCHANGED coreVars
    /\ UNCHANGED <<menu, room, lib>>

NextFeather ==
    \/ featherPlain
    \/ featherInverted

SpecFeather == InitFeather /\ [][NextFeather]_vars

\* ------------------------------------------------------ settings popover
\* menu/main.ts: the popover of the selected items, once its OBR.onReady
\* handler (lines 433-479) has run.  Its handlers run to completion; what it
\* awaits (updateItems) and what it is sent (onChange notifications) arrive
\* in later steps.
MaxMenuInputs == 3     \* slider moves, releases and toggle clicks of the user
MaxMenuOthers == 1     \* changes of the scene that are not the popover's own

selectedItemIds == <<"m1", "m2">>
SliderKeys == {"s", "h"}          \* the sliders the user moves in the model
HSLOKeys == {"s", "l", "h", "o"}

DigitChars == <<"0", "1", "2", "3", "4", "5", "6", "7", "8", "9">>

RECURSIVE NatToString(_)
NatToString(n) ==
    IF n < 10 THEN <<DigitChars[n + 1]>>
    ELSE NatToString(n \div 10) \o <<DigitChars[(n % 10) + 1]>>

\* Number.prototype.toString of an integer
toString(v) == IF v.num < 0 THEN <<"-">> \o NatToString(-v.num) ELSE NatToString(v.num)

IsDigit(c) == \E d \in 1..10 : DigitChars[d] = c
DigitValue(c) == (CHOOSE d \in 1..10 : DigitChars[d] = c) - 1

RECURSIVE ParseDigits(_, _)
ParseDigits(str, acc) ==
    IF str = <<>> \/ ~IsDigit(Head(str)) THEN acc
    ELSE ParseDigits(Tail(str), 10 * acc + DigitValue(Head(str)))

\* parseInt(str, 10)
parseInt(str) ==
    LET neg == str # <<>> /\ Head(str) = "-"
        body == IF neg THEN Tail(str) ELSE str
    IN IF body = <<>> \/ ~IsDigit(Head(body)) THEN NaN
       ELSE Num(IF neg THEN -ParseDigits(body, 0) ELSE ParseDigits(body, 0))

\* updateUI, lines 186-214: slider positions and toggle from currentConfig
updateUI(m) ==
    [m EXCEPT !.sliders = [k \in HSLOKeys |-> toString(m.currentConfig[k])],
              !.toggleActive = Truthy(m.currentConfig.e)]

RECURSIVE FirstConfig(_, _)
\* The config of the first of the items ids that has a valid one, b defaulted;
\* none: JsUndefined.
FirstConfig(ids, items) ==
    IF ids = <<>> THEN JsUndefined
    ELSE IF isAuroraConfig(items[Head(ids)].config) THEN WithB(items[Head(ids)].config)
    ELSE FirstConfig(Tail(ids), items)

\* readConfigFromItems, lines 97-110
readConfigFromItems(items) ==
    LET c == FirstConfig(selectedItemIds, items)
    IN IF c = JsUndefined THEN DEFAULT_CONFIG ELSE c

\* The click handler of the toggle with the sliders put back to the defaults.
toggleHandlerResets(m) ==
    updateUI([m EXCEPT !.currentConfig =
                [k \in DOMAIN @ |-> IF k = "e" THEN Bool(~Truthy(@[k]))
                                    ELSE IF k \in HSLOKeys THEN DEFAULT_CONFIG[k] ELSE @[k]]])

\* lines 263-266, up to the call of writeConfigToItems
toggleHandler(m) == updateUI([m EXCEPT !.currentConfig.e = Bool(~Truthy(@))])

MenuScene ==
    [i \in ItemIds |->
        [BaseItem(IF i = "m1" THEN "IMAGE" ELSE "SHAPE") EXCEPT !.config = DEFAULT_CONFIG]]

NoRelease == [key |-> "none", value |-> 0]

InitMenu ==
    /\ scene = MenuScene
    /\ effects = {}
    /\ snapshotCache = EmptyMap
    /\ pass = [p \in PassIds |-> Idle]
    /\ started = FALSE
    /\ subscribed = FALSE
    /\ edits = 0
    /\ noops = 0
    /\ fails = 0
    /\ last = NoLast
    /\ prev = NoLast
    /\ life = LifeStart
    /\ frame = Closed /\ room = Closed /\ lib = Closed
    /\ menu = updateUI([ open |-> TRUE,
                         currentConfig |-> readConfigFromItems(MenuScene),
                         sliders |-> [k \in HSLOKeys |-> <<>>],
                         toggleActive |-> FALSE,
                         saveTimeout |-> FALSE,     \* a timer is pending
                         writes |-> 0,              \* updateItems calls that have not run their callback
                         inbox |-> <<>>,            \* onChange notifications not yet handled
                         inputs |-> 0, others |-> 0,
                         released |-> NoRelease ])  \* the slider released last, if no input followed

\* The user drags slider key to value v: the input event, lines 283-295.
sliderInput ==
    /\ menu.open /\ menu.inputs < MaxMenuInputs
    /\ \E key \in SliderKeys :
         LET v == toString(OtherValue(key))
             dragged == [menu EXCEPT !.sliders[key] = v]
         IN /\ menu.sliders[key] # v
            /\ menu' = [dragged EXCEPT !.currentConfig[key] = parseInt(dragged.sliders[key]),
                                       !.inputs = @ + 1,
                                       !.released = NoRelease]
    /\ UNCHANGED coreVars
    /\ UNCHANGED <<frame, room, lib>>

\* The user releases slider key: the change event, debouncedSave (lines 89-92, 297).
sliderChange ==
    /\ menu.open /\ menu.inputs < MaxMenuInputs
    /\ \E key \in SliderKeys :
         /\ menu.sliders[key] = toString(OtherValue(key))
         /\ menu.released.key # key
         /\ menu' = [menu EXCEPT !.saveTimeout = TRUE,
                                 !.inputs = @ + 1,
                                 !.released = [key |-> key, value |-> parseInt(menu.sliders[key]).num]]
    /\ UNCHANGED coreVars
    /\ UNCHANGED <<frame, room, lib>>

\* The timer of debouncedSave fires: writeConfigToItems is called (line 91)
\* and calls updateItems (line 116).
saveTimeoutFires ==
    /\ menu.open /\ menu.saveTimeout
    /\ menu' = [menu EXCEPT !.saveTimeout = FALSE, !.writes = @ + 1]
    /\ UNCHANGED coreVars
    /\ UNCHANGED <<frame, room, lib>>

\* The user clicks the toggle (lines 263-267).
toggleClick ==
    /\ menu.open /\ menu.inputs < MaxMenuInputs
    /\ menu' = [toggleHandler(menu) EXCEPT !.writes = @ + 1, !.inputs = @ + 1,
                                           !.released = NoRelease]
    /\ UNCHANGED coreVars
    /\ UNCHANGED <<frame, room, lib>>

\* updateItems has fetched the selected items and runs the callback of lines
\* 116-120 on them: each gets a copy of currentConfig as it is now.  The
\* change is notified to every onChange subscriber, this popover included.
updateItemsApply ==
    /\ menu.open /\ menu.writes > 0
    /\ LET items == [i \in ItemIds |-> [scene[i] EXCEPT !.config = menu.currentConfig]]
       IN /\ scene' = items
          /\ menu' = [menu EXCEPT !.writes = @ - 1,
                                  !.inbox = IF items = scene THEN @ ELSE Append(@, items)]
    /\ UNCHANGED <<effects, snapshotCache, pass, started, subscribed, edits, noops, fails, last,
                   prev, life>>
    /\ UNCHANGED <<frame, room, lib>>

\* Something else changes the scene's items: another participant stores a
\* config, or moves an item.  onChange fires on any change.
otherChange ==
    /\ menu.open /\ menu.others < MaxMenuOthers
    /\ \E items \in {[scene EXCEPT !["m1"].config.o = Num(30)],
                      [scene EXCEPT !["m2"].position.x = 10]} :
         /\ items # scene
         /\ scene' = items
         /\ menu' = [menu EXCEPT !.others = @ + 1, !.inbox = Append(@, items)]
    /\ UNCHANGED <<effects, snapshotCache, pass, started, subscribed, edits, noops, fails, last,
                   prev, life>>
    /\ UNCHANGED <<frame, room, lib>>

\* The onChange callback of lines 459-469 handles the next notification.
menuOnChange ==
    /\ menu.open /\ menu.inbox # <<>>
    /\ LET items == Head(menu.inbox)
           relevant == FilterSeq(ItemOrder, {selectedItemIds[n] : n \in DOMAIN selectedItemIds})
           config == FirstConfig(relevant, items)
           m == [menu EXCEPT !.inbox = Tail(@)]
       IN menu' = IF config = JsUndefined THEN m
                  ELSE updateUI([m EXCEPT !.currentConfig = config])
    /\ UNCHANGED coreVars
    /\ UNCHANGED <<frame, room, lib>>

NextMenu ==
    \/ sliderInput
    \/ sliderChange
    \/ saveTimeoutFires
    \/ toggleClick
    \/ updateItemsApply
    \/ otherChange
    \/ menuOnChange

SpecMenu == InitMenu /\ [][NextMenu]_vars

\* The browser fires a pending timer, OBR answers a pending call and delivers
\* a pending notification.
SpecMenuLive ==
    /\ SpecMenu
    /\ WF_vars(saveTimeoutFires) /\ WF_vars(updateItemsApply) /\ WF_vars(menuOnChange)

\* ---------------------------------------------------------------- presets
\* shared/presets.ts on the room metadata.  The popovers of every participant
\* call loadPresets, saveToPresetSlot and clearPresetSlot; each call suspends in getMetadata
\* and in setMetadata, and the room holds what was set last.
MAX_PRESET_SLOTS == 6
MAX_NAME_LENGTH == 16
MaxPresetCalls == 3    \* calls of loadPresets, saveToPresetSlot and clearPresetSlot
ClientIds == {1, 2}    \* the iframes that use the presets

\* Strings are sequences of characters.
Whitespace == {" "}

RECURSIVE TrimStart(_)
TrimStart(str) ==
    IF str # <<>> /\ Head(str) \in Whitespace THEN TrimStart(Tail(str)) ELSE str

RECURSIVE TrimEnd(_)
TrimEnd(str) ==
    IF str # <<>> /\ str[Len(str)] \in Whitespace
    THEN TrimEnd(SubSeq(str, 1, Len(str) - 1)) ELSE str

\* String.prototype.trim
trim(str) == TrimEnd(TrimStart(str))

\* str.substring(0, n)
substring(str, n) == SubSeq(str, 1, IF Len(str) < n THEN Len(str) ELSE n)

Preset(n, s, l, h, o) ==
    [typ |-> "object", n |-> Str(n), s |-> Num(s), l |-> Num(l), h |-> Num(h), o |-> Num(o)]

\* An array value.
Array(items) == [typ |-> "object", array |-> items]
IsArray(val) == "array" \in DOMAIN val

DEFAULT_PRESETS ==
    Array(<< Preset(<<"M", "i", "d", "n", "i", "g", "h", "t">>, 25, 30, -99, 9),
             Preset(<<"G", "o", "l", "d", "e", "n", " ", "H", "o", "u", "r">>, 120, 80, 30, 10),
             Preset(<<"P", "r", "e", "-", "D", "a", "w", "n">>, 100, 50, -150, 8),
             Preset(<<"B", "l", "o", "o", "d", " ", "M", "o", "o", "n">>, 20, 40, 0, 14),
             JsNull,
             JsNull >>)

\* types.ts lines 175-188
isPresets(val) ==
    IF ~IsArray(val) THEN FALSE
    ELSE \A k \in DOMAIN val.array :
           LET item == val.array[k]
           IN \/ item = JsNull
              \/ /\ TypeOf(item) = "object"
                 /\ item # JsNull
                 /\ TypeOf(Get(item, "n")) = "string"
                 /\ TypeOf(Get(item, "s")) = "number"
                 /\ TypeOf(Get(item, "l")) = "number"
                 /\ TypeOf(Get(item, "h")) = "number"
                 /\ TypeOf(Get(item, "o")) = "number"

\* The name with the cut left out.
presetNameUncut(name, index) ==
    IF trim(name) # <<>> THEN trim(name)
    ELSE <<"P", "r", "e", "s", "e", "t", " ">> \o toString(Num(index + 1))

\* line 54: name.trim().substring(0, MAX_NAME_LENGTH) || `Preset ${index + 1}`
presetName(name, index) ==
    IF substring(trim(name), MAX_NAME_LENGTH) # <<>>
    THEN substring(trim(name), MAX_NAME_LENGTH)
    ELSE <<"P", "r", "e", "s", "e", "t", " ">> \o toString(Num(index + 1))

\* lines 53-59: presets[index] = {...}; index counts from 0
withSlot(presets, index, name, values) ==
    Array([presets.array EXCEPT ![index + 1] =
             [typ |-> "object", n |-> Str(presetName(name, index)),
              s |-> values.s, l |-> values.l, h |-> values.h, o |-> values.o]])

\* line 66: presets[index] = null
withoutSlot(presets, index) == Array([presets.array EXCEPT ![index + 1] = JsNull])

\* What the user types as a name, and the slots and values saved.
PresetNames ==
    { <<>>, <<" ", " ">>, <<" ", "D", "u", "s", "k", " ">>, <<"D", "u", "s", "k">>, <<"M", "o", "o", "n", "l", "i", "t", " ", "b", "a", "t", "t", "l", "e", "f", "i", "e", "l", "d">> }
PresetSlots == {0, 4}
PresetValues == {[FullConfig EXCEPT !.s = Num(50), !.h = Num(-30)]}

NoCall ==
    [ op |-> "none", pc |-> "idle", client |-> 0, index |-> 0, name |-> <<>>,
      values |-> JsUndefined,
      loaded |-> JsUndefined,      \* what loadPresets returned to the call
      payload |-> JsUndefined ]    \* what the pending setMetadata carries

InitPresets ==
    /\ scene = EmptyMap
    /\ effects = {}
    /\ snapshotCache = EmptyMap
    /\ pass = [p \in PassIds |-> Idle]
    /\ started = FALSE
    /\ subscribed = FALSE
    /\ edits = 0
    /\ noops = 0
    /\ fails = 0
    /\ last = NoLast
    /\ prev = NoLast
    /\ life = LifeStart
    /\ frame = Closed /\ menu = Closed /\ lib = Closed
    /\ room = [ open |-> TRUE,
                presets |-> JsUndefined,         \* metadata[PRESETS_KEY]
                call |-> [c \in ClientIds |-> NoCall],
                calls |-> 0,
                done |-> NoCall ]                \* the call that returned in the last step

\* Client c calls loadPresets (line 27): it awaits getMetadata.
loadPresetsCall(c) ==
    /\ room.open /\ room.calls < MaxPresetCalls /\ room.call[c] = NoCall
    /\ room' = [room EXCEPT !.call[c] = [NoCall EXCEPT !.op = "load", !.pc = "getMetadata",
                                                       !.client = c],
                            !.calls = @ + 1, !.done = NoCall]
    /\ UNCHANGED coreVars
    /\ UNCHANGED <<frame, menu, lib>>

\* Client c calls saveToPresetSlot (line 47): it awaits loadPresets.
saveToPresetSlotCall(c) ==
    /\ room.open /\ room.calls < MaxPresetCalls /\ room.call[c] = NoCall
    /\ \E index \in PresetSlots, name \in PresetNames, values \in PresetValues :
         room' = [room EXCEPT !.call[c] = [NoCall EXCEPT !.op = "save", !.pc = "getMetadata",
                                                        !.client = c, !.index = index,
                                                        !.name = name, !.values = values],
                             !.calls = @ + 1, !.done = NoCall]
    /\ UNCHANGED coreVars
    /\ UNCHANGED <<frame, menu, lib>>

\* Client c calls clearPresetSlot (line 64): it awaits loadPresets.
clearPresetSlotCall(c) ==
    /\ room.open /\ room.calls < MaxPresetCalls /\ room.call[c] = NoCall
    /\ \E index \in PresetSlots :
         room' = [room EXCEPT !.call[c] = [NoCall EXCEPT !.op = "clear", !.pc = "getMetadata",
                                                        !.client = c, !.index = index],
                             !.calls = @ + 1, !.done = NoCall]
    /\ UNCHANGED coreVars
    /\ UNCHANGED <<frame, menu, lib>>

\* loadPresets has returned presets to call k of client c: loadPresets' own
\* caller is done; saveToPresetSlot and clearPresetSlot set the slot and call
\* savePresets.
Loaded(r, c, presets) ==
    LET k == r.call[c]
    IN IF k.op = "load"
       THEN [r EXCEPT !.call[c] = NoCall, !.done = [k EXCEPT !.pc = "done", !.loaded = presets]]
       ELSE [r EXCEPT !.call[c] = [k EXCEPT !.pc = "savePresets", !.loaded = presets,
                                            !.payload = IF k.op = "clear"
                                                        THEN withoutSlot(presets, k.index)
                                                        ELSE withSlot(presets, k.index, k.name, k.values)],
                      !.done = NoCall]

\* getMetadata answers (lines 28-37).
getMetadataReturn(c) ==
    /\ room.open /\ room.call[c].pc = "getMetadata"
    /\ LET data == room.presets
       IN room' = IF isPresets(data) THEN Loaded(room, c, data)
                  ELSE [room EXCEPT !.call[c].pc = "seed", !.call[c].payload = DEFAULT_PRESETS,
                                 !.done = NoCall]
    /\ UNCHANGED coreVars
    /\ UNCHANGED <<frame, menu, lib>>

\* setMetadata answers: the room holds the payload (lines 37 and 43).
setMetadataReturn(c) ==
    /\ room.open /\ room.call[c].pc \in {"seed", "savePresets"}
    /\ LET k == room.call[c]
           r == [room EXCEPT !.presets = k.payload]
       IN room' = IF k.pc = "seed" THEN Loaded(r, c, k.payload)
                  ELSE [r EXCEPT !.call[c] = NoCall, !.done = [k EXCEPT !.pc = "done"]]
    /\ UNCHANGED coreVars
    /\ UNCHANGED <<frame, menu, lib>>

NextPresets ==
    \/ \E c \in ClientIds : loadPresetsCall(c)
    \/ \E c \in ClientIds : saveToPresetSlotCall(c)
    \/ \E c \in ClientIds : clearPresetSlotCall(c)
    \/ \E c \in ClientIds : getMetadataReturn(c)
    \/ \E c \in ClientIds : setMetadataReturn(c)

SpecPresets == InitPresets /\ [][NextPresets]_vars

\* ---------------------------------------------------------- preset library
\* src/main.ts, the action popover.  Its state is the module's presets and
\* activeMode, the click listeners renderPresets attached, the rename dialogs
\* on the page and the handlers suspended in a call of the room's metadata.
MaxLibInputs == 5      \* clicks and key presses in the popover
MaxLibOthers == 1      \* saves of other participants
LibSlots == {0, 4}     \* the preset items clicked: an occupied one, and one empty
                       \* until another participant saves to it
LibNames == { <<>>, <<"D", "u", "s", "k">> }   \* what the rename input holds

NoEvent == [kind |-> "none", index |-> 0, effect |-> "none"]

\* lines 67-113: the items that get a click listener (lines 107-109)
renderPresets(l) ==
    [l EXCEPT !.listeners =
       IF l.activeMode # "null"
       THEN {index \in 0 .. Len(l.presets.array) - 1 : l.presets.array[index + 1] # JsNull}
       ELSE {}]

\* setMode without the cancel of lines 44-45.
setModeNoCancel(l, mode) ==
    renderPresets([l EXCEPT !.activeMode = mode])

\* lines 42-56
setMode(l, mode) ==
    renderPresets([l EXCEPT !.activeMode = IF mode = l.activeMode THEN "null" ELSE mode])

\* lines 58-63
exitMode(l) ==
    renderPresets([l EXCEPT !.activeMode = "null"])

\* lines 154-157: removeChild throws when the overlay is no longer on the
\* page, and exitMode is not reached.
close(l, id) ==
    IF \E d \in l.dialogs : d.id = id
    THEN exitMode([l EXCEPT !.dialogs = {d \in l.dialogs : d.id # id},
                            !.event = [kind |-> "closed", index |-> 0, effect |-> "none"]])
    ELSE [l EXCEPT !.event = NoEvent]

\* line 160: input.value.trim().substring(0, MAX_NAME_LENGTH) || preset.n
renamedTo(value, preset) ==
    IF substring(trim(value), MAX_NAME_LENGTH) # <<>>
    THEN Str(substring(trim(value), MAX_NAME_LENGTH))
    ELSE preset.n

\* presets.ts lines 27-39, for a room that holds presets or not
loadedPresets(data) == IF isPresets(data) THEN data ELSE DEFAULT_PRESETS

\* OBR.onReady (lines 193-219) has loaded the room's presets and rendered.
InitLib ==
    /\ scene = EmptyMap
    /\ effects = {}
    /\ snapshotCache = EmptyMap
    /\ pass = [p \in PassIds |-> Idle]
    /\ started = FALSE
    /\ subscribed = FALSE
    /\ edits = 0
    /\ noops = 0
    /\ fails = 0
    /\ last = NoLast
    /\ prev = NoLast
    /\ life = LifeStart
    /\ frame = Closed /\ menu = Closed
    /\ room = [open |-> TRUE, presets |-> DEFAULT_PRESETS, others |-> 0]
    /\ lib = [ open |-> TRUE,
               presets |-> DEFAULT_PRESETS,
               activeMode |-> "null",
               listeners |-> {},
               dialogs |-> {},      \* [id, index, preset] of showRenameDialog's closure
               tasks |-> {},        \* handlers suspended in an await
               notices |-> <<>>,    \* metadata changes not yet delivered
               inputs |-> 0,
               event |-> NoEvent ]  \* what the last click did

\* lines 204-205: a click on a mode button
modeButtonClick(mode) ==
    /\ lib.open /\ lib.inputs < MaxLibInputs
    /\ lib' = [setMode(lib, mode) EXCEPT !.inputs = @ + 1,
                 !.event = [kind |-> "mode", index |-> 0, effect |-> mode]]
    /\ UNCHANGED coreVars
    /\ UNCHANGED <<frame, menu, room>>

\* lines 117-125 and 129-131, run by the listener of line 108
handlePresetClick(l, index) ==
    IF l.activeMode = "rename"
    THEN IF l.presets.array[index + 1] = JsNull
         THEN [l EXCEPT !.event = [kind |-> "preset", index |-> index, effect |-> "none"]]
         ELSE [l EXCEPT !.dialogs = @ \cup {[id |-> l.inputs, index |-> index,
                                             preset |-> l.presets.array[index + 1]]},
                        !.event = [kind |-> "preset", index |-> index, effect |-> "rename"]]
    ELSE IF l.activeMode = "clear"
    THEN [l EXCEPT !.tasks = @ \cup {[id |-> l.inputs, op |-> "clear", pc |-> "getMetadata",
                                      dialog |-> 0, index |-> index,
                                      payload |-> JsUndefined]},
                   !.event = [kind |-> "preset", index |-> index, effect |-> "clear"]]
    ELSE [l EXCEPT !.event = [kind |-> "preset", index |-> index, effect |-> "none"]]

\* A click on preset item index: its listener runs when it has one.
presetClick(index) ==
    /\ lib.open /\ lib.inputs < MaxLibInputs
    /\ lib' = [(IF index \in lib.listeners
                THEN handlePresetClick(lib, index)
                ELSE [lib EXCEPT !.event = [kind |-> "preset", index |-> index,
                                            effect |-> "none"]])
               EXCEPT !.inputs = @ + 1]
    /\ UNCHANGED coreVars
    /\ UNCHANGED <<frame, menu, room>>

\* clearPresetSlot (presets.ts lines 64-68): loadPresets answers, the slot is
\* set to null and savePresets is called.
clearLoaded(t) ==
    /\ lib.open /\ t \in lib.tasks /\ t.op = "clear" /\ t.pc = "getMetadata"
    /\ LET presets == loadedPresets(room.presets)
       IN lib' = [lib EXCEPT !.tasks = (@ \ {t}) \cup
                    {[t EXCEPT !.pc = "setMetadata",
                               !.payload = Array([presets.array EXCEPT ![t.index + 1] = JsNull])]},
                    !.event = NoEvent]
    /\ UNCHANGED coreVars
    /\ UNCHANGED <<frame, menu, room>>

\* savePresets of clearPresetSlot answers; line 122 awaits loadPresets.
clearSaved(t) ==
    /\ lib.open /\ t \in lib.tasks /\ t.op = "clear" /\ t.pc = "setMetadata"
    /\ room' = [room EXCEPT !.presets = t.payload]
    /\ lib' = [lib EXCEPT !.tasks = (@ \ {t}) \cup {[t EXCEPT !.pc = "loadPresets"]},
                          !.notices = Append(@, t.payload),
                          !.event = NoEvent]
    /\ UNCHANGED coreVars
    /\ UNCHANGED <<frame, menu>>

\* lines 122-123: presets = await loadPresets(); exitMode();
clearDone(t) ==
    /\ lib.open /\ t \in lib.tasks /\ t.op = "clear" /\ t.pc = "loadPresets"
    /\ lib' = [exitMode([lib EXCEPT !.presets = loadedPresets(room.presets),
                                    !.tasks = @ \ {t}])
               EXCEPT !.event = [kind |-> "cleared", index |-> t.index, effect |-> "none"]]
    /\ UNCHANGED coreVars
    /\ UNCHANGED <<frame, menu, room>>

\* lines 166 and 177-188: Cancel, Escape or a click on the overlay
renameCancel(d) ==
    /\ lib.open /\ lib.inputs < MaxLibInputs /\ d \in lib.dialogs
    /\ lib' = [close(lib, d.id) EXCEPT !.inputs = @ + 1]
    /\ UNCHANGED coreVars
    /\ UNCHANGED <<frame, menu, room>>

\* lines 159-162, 167-175: Rename or Enter, up to the await of savePresets
renameConfirm(d) ==
    /\ lib.open /\ lib.inputs < MaxLibInputs /\ d \in lib.dialogs
    /\ \E value \in LibNames :
         LET presets == Array([lib.presets.array EXCEPT ![d.index + 1] =
                                 [d.preset EXCEPT !.n = renamedTo(value, d.preset)]])
         IN lib' = [lib EXCEPT !.presets = presets,
                      !.tasks = @ \cup {[id |-> lib.inputs, op |-> "rename", pc |-> "setMetadata",
                                         dialog |-> d.id, index |-> d.index,
                                         payload |-> presets]},
                      !.inputs = @ + 1,
                      !.event = NoEvent]
    /\ UNCHANGED coreVars
    /\ UNCHANGED <<frame, menu, room>>

\* line 163: savePresets has answered; close()
renameSaved(t) ==
    /\ lib.open /\ t \in lib.tasks /\ t.op = "rename" /\ t.pc = "setMetadata"
    /\ room' = [room EXCEPT !.presets = t.payload]
    /\ lib' = [close([lib EXCEPT !.tasks = @ \ {t}], t.dialog)
               EXCEPT !.notices = Append(@, t.payload)]
    /\ UNCHANGED coreVars
    /\ UNCHANGED <<frame, menu>>

\* Another participant saves a preset from the settings popover.
otherSave ==
    /\ lib.open /\ room.others < MaxLibOthers
    /\ LET presets == withSlot(loadedPresets(room.presets), 4, <<>>,
                               CHOOSE values \in PresetValues : TRUE)
       IN /\ room' = [room EXCEPT !.presets = presets, !.others = @ + 1]
          /\ lib' = [lib EXCEPT !.notices = Append(@, presets), !.event = NoEvent]
    /\ UNCHANGED coreVars
    /\ UNCHANGED <<frame, menu>>

\* lines 212-218
onMetadataChange ==
    /\ lib.open /\ lib.notices # <<>>
    /\ LET data == Head(lib.notices)
           l == [lib EXCEPT !.notices = Tail(@), !.event = NoEvent]
       IN lib' = IF isPresets(data) THEN renderPresets([l EXCEPT !.presets = data]) ELSE l
    /\ UNCHANGED coreVars
    /\ UNCHANGED <<frame, menu, room>>

NextLib ==
    \/ \E mode \in {"rename", "clear"} : modeButtonClick(mode)
    \/ \E index \in LibSlots : presetClick(index)
    \/ \E t \in lib.tasks : clearLoaded(t)
    \/ \E t \in lib.tasks : clearSaved(t)
    \/ \E t \in lib.tasks : clearDone(t)
    \/ \E d \in lib.dialogs : renameCancel(d)
    \/ \E d \in lib.dialogs : renameConfirm(d)
    \/ \E t \in lib.tasks : renameSaved(t)
    \/ otherSave
    \/ onMetadataChange

SpecLib == InitLib /\ [][NextLib]_vars

\* ------------------------------------------------------------ properties
\* The attachments of source item i.
Attachments(i) == {e \in effects : e.attachedTo = i}

\* The uniforms that come from the config.
ConfigUniforms(u) ==
    [k \in {"saturation", "lightness", "hue", "opacity", "blendMode", "feather", "invertFeather"}
       |-> u[k]]

\* Effect e is what buildAuroraEffect derives from item and its config.
Mirrors(e, item) ==
    /\ e.position = item.position
    /\ e.rotation = item.rotation
    /\ e.scale = item.scale
    /\ e.visible = item.visible
    /\ ConfigUniforms(e.uniforms) = ConfigUniforms(getShaderUniforms(item.config, NoBounds))

\* A reconcileEffects call has just returned; no call threw inside it and no
\* other call was in flight while it ran.
CleanReturn == last.valid /\ last.f.failedAt = "none" /\ ~last.f.overlapped

\* ... and the call that returned before it was like that too, and had the
\* same items.
CleanRepeat ==
    /\ CleanReturn
    /\ last.prev.valid /\ last.prev.failedAt = "none" /\ ~last.prev.overlapped
    /\ last.prev.items = last.f.items

\* The frames the state holds: those in flight and the one that just returned.
Frames == {pass[p] : p \in InFlight} \cup (IF last.valid THEN {last.f} ELSE {})

\* C1: in every reachable state, overlapping passes included, each source id
\* has at most one attachment.
C1_AtMostOneAttachment ==
    \A i \in ItemIds : Cardinality(Attachments(i)) <= 1

\* C2: after a pass that returns without failure and without overlap, every
\* enabled configured MAP item of its input has exactly one attachment, and
\* that attachment mirrors the item and config of the input.
C2_EnabledHasOneMirroringAttachment ==
    CleanReturn =>
      \A i \in AuroraIds(last.f.items) :
        Truthy(last.f.items[i].config.e) =>
          /\ Cardinality(Attachments(i)) = 1
          /\ \A e \in Attachments(i) : Mirrors(e, last.f.items[i])

\* C3: after a pass has returned (here even: without failure and without
\* overlap), no configured item whose config is disabled has an attachment.
C3_DisabledImpliesAbsent ==
    CleanReturn =>
      \A i \in AuroraIds(last.f.items) :
        ~Truthy(last.f.items[i].config.e) => Attachments(i) = {}

\* C4: the second of two successive calls with the same items, the first
\* having succeeded, issues no deleteItems and no addItems call.
C4_SecondCallIssuesNoCalls ==
    CleanRepeat => last.f.deleteCalls = 0 /\ last.f.addCalls = 0

\* C5: when a pass visits an id whose cached snapshot equals the fresh one
\* and that has an effect in the pass's query result, the pass schedules no
\* deletion and no creation for that id (now or later), and the visit leaves
\* the id's cache entry as it was.
C5_NothingScheduled ==
    \A f \in Frames : \A i \in f.eqAtVisit \cap DOMAIN f.bySource :
        /\ \A x \in f.idsToRemove : x[1] # i
        /\ \A e \in f.effectsToAdd : e.attachedTo # i

C5_CacheEntryKept ==
    \A p \in PassIds :
      LET after == IF pass[p].pc # "idle" /\ pass'[p].pc = "idle" THEN last'.f ELSE pass'[p]
      IN \A i \in (after.eqAtVisit \ pass[p].eqAtVisit) \cap DOMAIN after.bySource :
           /\ MapHas(snapshotCache, i) /\ MapHas(snapshotCache', i)
           /\ snapshotCache'[i] = snapshotCache[i]

C5_UnchangedWithEffectIsSkipped == [][C5_CacheEntryKept]_vars /\ []C5_NothingScheduled

\* C5 witness: a pass has returned that visited such an id and also issued a
\* call for another id.
C5_Witness ==
    /\ last.valid
    /\ last.f.eqAtVisit \cap DOMAIN last.f.bySource # {}
    /\ last.f.touched # {}
    /\ last.f.deleteCalls + last.f.addCalls > 0

\* C6: a call that fails inside reconcileEffects ends in its catch clause:
\* the function returns, nothing is thrown to the handler that called it, and
\* onSceneReady goes on to subscribe.
C6_FailureIsCaught ==
    last.valid =>
      /\ last.f.outcome # "thrown"
      /\ (last.f.cont = "subscribe" => subscribed)

\* C6 witness: a pass has returned after one of its calls failed.
C6_Witness == last.valid /\ last.f.failedAt # "none" /\ last.f.outcome = "caught"

\* C7: when a call of a pass fails (and no other pass ran meanwhile), the
\* cache after the pass is the cache the pass started with.
C7_CacheUnchangedOnFailure ==
    (last.valid /\ last.f.failedAt # "none" /\ ~last.f.overlapped)
      => snapshotCache = last.f.cacheBefore

\* C8: a pass failed at deleteItems or addItems; the next pass, same items,
\* succeeds.  Then each id the failed pass had work for has, if enabled,
\* exactly one attachment mirroring its current config, and none if disabled.
C8_NextPassRecomputes ==
    ( /\ CleanReturn
      /\ last.prev.valid /\ last.prev.failedAt \in {"delete", "add"} /\ ~last.prev.overlapped
      /\ last.prev.items = last.f.items )
    => \A i \in last.prev.touched :
         IF Truthy(last.f.items[i].config.e)
         THEN /\ Cardinality(Attachments(i)) = 1
              /\ \A e \in Attachments(i) : Mirrors(e, last.f.items[i])
         ELSE Attachments(i) = {}

\* C9: an item that had an attachment lost its config and nothing else
\* changed; the next pass (without failure or overlap, as was the pass before
\* it) leaves the item without attachment and without cache entry, and
\* issues no addItems call.
C9_ConfigRemoved ==
    \A i \in ItemIds :
      ( /\ CleanReturn
        /\ last.prev.valid /\ last.prev.failedAt = "none" /\ ~last.prev.overlapped
        /\ i \in AuroraIds(last.prev.items)
        /\ last.f.items = [last.prev.items EXCEPT ![i].config = JsUndefined]
        /\ MapHas(last.f.bySource, i) )
      => /\ Attachments(i) = {}
         /\ ~MapHas(snapshotCache, i)
         /\ last.f.addCalls = 0

\* C10: after a pass has returned (without failure or overlap), the cache
\* has entries only for configured MAP-layer items of the pass's input.
C10_CacheOnlyForConfigured ==
    CleanReturn => DOMAIN snapshotCache \subseteq AuroraIds(last.f.items)

\* C11: a pass whose input holds two items with the same enabled config at
\* different positions, neither with an effect yet, creates two effects with
\* different ids, one per item; each has its own item as attach target and
\* back-reference and its own item's position, rotation, scale, visibility.
C11_Case(f) ==
    /\ f.failedAt = "none"
    /\ AuroraIds(f.items) = ItemIds
    /\ f.items["m1"].config = f.items["m2"].config
    /\ Truthy(f.items["m1"].config.e)
    /\ f.items["m1"].position # f.items["m2"].position
    /\ DOMAIN f.bySource = {}

C11_OwnTransform(e, item) ==
    /\ e.position = item.position
    /\ e.rotation = item.rotation
    /\ e.scale = item.scale
    /\ e.visible = item.visible

C11_EachMirrorsItsOwn ==
    (last.valid /\ C11_Case(last.f)) =>
      LET added == last.f.effectsToAdd
      IN /\ Cardinality(added) = 2
         /\ Cardinality({e.id : e \in added}) = 2
         /\ added \subseteq effects
         /\ \A i \in ItemIds :
              /\ Cardinality({e \in added : e.attachedTo = i}) = 1
              /\ \A e \in added :
                   e.attachedTo = i =>
                     /\ e.metadata.sourceItemId = i
                     /\ C11_OwnTransform(e, last.f.items[i])

\* C11 witness: such a pass has returned after its addItems call.
C11_Witness == last.valid /\ C11_Case(last.f) /\ last.f.addCalls = 1

\* C12: once a not-ready event has been handled to its end and no ready
\* event has come since, there is no item-change subscription, no effect and
\* no cache entry -- also when a pass or onSceneReady was in flight when the
\* event came.  (Stated for runs without a failed call; C13 has those.)
C12_QuietAfterNotReady ==
    (life.quiet /\ fails = 0) =>
      /\ ~subscribed
      /\ effects = {}
      /\ snapshotCache = EmptyMap

\* C13: a removeAllEffects call that ends, whether its findAllEffects and
\* deleteItems calls succeeded or not, leaves the cache empty.
C13_TeardownStep == life.td.pc # "idle" /\ life'.td.pc = "idle"

C13_TeardownClearsCache == [][C13_TeardownStep => snapshotCache' = EmptyMap]_vars

\* C14: once the cleanup function has been called, neither subscription is
\* live (so no item-change or readiness event reaches a handler), whenever
\* after the start it was called.
C14_ShutdownIsFinal == life.shut => (~subscribed /\ ~life.readySub)

\* C15: onSceneReady fetches the items first, then runs reconcileEffects with
\* them to its end, and only then subscribes to item changes; and every
\* notification that reaches a live subscription starts a reconcileEffects
\* call with the items it delivers.
C15_Started(p) == pass[p].pc = "idle" /\ pass'[p].pc = "query"

C15_FetchFirst ==
    /\ (life.init = "isReady" /\ life'.init = "onSceneReady")
         => (life'.getItems.init /\ pass' = pass /\ ~subscribed')
    /\ (life.readySub /\ ~life.ready /\ life'.ready)
         => (life'.getItems.handler = life.getItems.handler + 1 /\ pass' = pass
             /\ subscribed' = subscribed)

C15_ThenReconcile ==
    \A p \in PassIds :
      (C15_Started(p) /\ pass'[p].cont # "none") =>
        /\ pass'[p].items = scene
        /\ \/ life.getItems.init /\ ~life'.getItems.init
           \/ life'.getItems.handler = life.getItems.handler - 1
        /\ subscribed' = subscribed

C15_ThenSubscribe ==
    /\ (~subscribed /\ subscribed') =>
         (last'.valid /\ last'.f.cont \in {"init", "subscribe"})
    /\ (last'.valid /\ last'.f.cont \in {"init", "subscribe"}) => subscribed'

C15_EveryNotification ==
    (edits' # edits \/ noops' # noops) =>
      IF subscribed
      THEN \E p \in PassIds :
             C15_Started(p) /\ pass'[p].items = scene' /\ pass'[p].cont = "none"
      ELSE pass' = pass

C16_Settled ==
    /\ CleanReturn /\ InFlight = {} /\ fails = 0
    /\ last.f.items = scene

C16_OverlapIsCorrected ==
    C16_Settled =>
      \A i \in ItemIds :
        IF i \in AuroraIds(scene) /\ Truthy(scene[i].config.e)
        THEN /\ Cardinality(Attachments(i)) = 1
             /\ \A e \in Attachments(i) : Mirrors(e, scene[i])
        ELSE Attachments(i) = {}

\* C17: a call suspended between reading an id's cache entry (line 248) and
\* writing it (line 268) does not exist: while a call stays suspended with
\* the entry of the id it is working on read and not yet written, no step
\* of another call changes that entry.
C17_BetweenReadAndWrite(p) == pass[p].pc = "bounds" /\ pass'[p] = pass[p]

C17_NoWriteInBetween ==
    \A p \in PassIds :
      C17_BetweenReadAndWrite(p) =>
        CacheGet(snapshotCache', Head(pass[p].todo)) = CacheGet(snapshotCache, Head(pass[p].todo))

C17_NoSuspensionInReadWrite == [][C17_NoWriteInBetween]_vars

\* The stored value v is there but is no GradingConfig: it is null or no
\* object, or one of its fields has another type than the field's.
C18_Malformed(v) ==
    /\ v # JsUndefined
    /\ \/ v = JsNull
       \/ TypeOf(v) # "object"
       \/ \E k \in ConfigFields \cap DOMAIN v :
             TypeOf(v[k]) # (IF k \in NumberFields THEN "number" ELSE "boolean")
       \/ {"s", "l", "h", "o", "e"} \ DOMAIN v # {}

\* C18: a stored config that is null, no object, or has a field of the wrong
\* type counts as no config: after a pass that returns without failure and
\* without overlap the item has no attachment, and the pass built none.
C18_MalformedIsNoConfig ==
    CleanReturn =>
      \A i \in ItemIds :
        C18_Malformed(last.f.items[i].config) =>
          /\ Attachments(i) = {}
          /\ i \notin last.f.touched

\* Call p is suspended in getItemBounds and this step is the query failing.
C19_BoundsFail(p) == pass[p].pc = "bounds" /\ pass'[p] # pass[p] /\ fails' = fails + 1

\* C19: when getItemBounds fails for a shape, getCoordOffset gives the zero
\* offset and the pass goes on: it is not failed, the effect for the shape is
\* among the additions of this pass next to the ones scheduled before, and
\* additions once scheduled stay scheduled until addItems creates them all
\* (or a call of the pass rejects).
C19_FailOpen ==
    \A p \in PassIds :
      /\ C19_BoundsFail(p) =>
            LET id == Head(pass[p].todo)
                item == pass[p].items[id]
            IN /\ \A m \in BoundsMins :
                    getCoordOffset(item, [ok |-> FALSE, min |-> [x |-> m, y |-> m]])
                      = [x |-> 0, y |-> 0]
               /\ pass'[p].pc \in {"bounds", "delete", "add"}
               /\ pass'[p].failedAt = "none" /\ pass'[p].outcome = "ok"
               /\ pass[p].effectsToAdd \subseteq pass'[p].effectsToAdd
               /\ \E e \in pass'[p].effectsToAdd \ pass[p].effectsToAdd :
                    e.attachedTo = id /\ C11_OwnTransform(e, item)
      /\ (pass[p].effectsToAdd # {} /\ pass'[p] # pass[p]) =>
            \/ pass'[p].pc # "idle" /\ pass[p].effectsToAdd \subseteq pass'[p].effectsToAdd
            \/ pass'[p].pc = "idle" /\ last'.f.failedAt # "none"
            \/ pass'[p].pc = "idle" /\ pass[p].effectsToAdd \subseteq effects'

C19_BoundsFailureFailsOpen == [][C19_FailOpen]_vars

\* The first pass ran alone over two enabled items, its bounds query for the
\* shape m2 failed, and it has returned with both attachments created.
C19_Witness ==
    /\ last.valid /\ ~last.prev.valid /\ ~last.f.overlapped
    /\ fails = 1 /\ last.f.failedAt = "none"
    /\ last.f.touched = ItemIds
    /\ \A i \in ItemIds : \E e \in last.f.effectsToAdd \cap effects : e.attachedTo = i

\* What frame f has called so far: each batch call at most once and only for
\* a batch that is not empty; while deleteItems is pending addItems has not
\* been called; when addItems is called, deleteItems has been called and has
\* answered if there was anything to remove.
C20_Calls(f) ==
    /\ f.deleteCalls \in {0, 1} /\ f.addCalls \in {0, 1}
    /\ f.deleteCalls = 1 => f.idsToRemove # {}
    /\ f.addCalls = 1 => f.effectsToAdd # {}
    /\ f.pc \in {"query", "bounds"} => f.deleteCalls = 0 /\ f.addCalls = 0
    /\ f.pc = "delete" => f.deleteCalls = 1 /\ f.addCalls = 0
    /\ f.pc = "add" => f.addCalls = 1 /\ (f.deleteCalls = 1 <=> f.idsToRemove # {})
    /\ (f.pc = "done" /\ f.failedAt = "none") =>
          /\ f.deleteCalls = 1 <=> f.idsToRemove # {}
          /\ f.addCalls = 1 <=> f.effectsToAdd # {}

\* The one call carries the whole batch: when deleteItems answers, every
\* scheduled removal is gone; when addItems answers, every scheduled addition
\* is there.
C20_WholeBatch ==
    \A p \in PassIds :
      (pass'[p].pc # pass[p].pc /\ fails' = fails) =>
        /\ pass[p].pc = "delete" =>
              /\ effects' = {e \in effects : e.id \notin pass[p].idsToRemove}
              /\ pass'[p].pc = "add" <=> pass[p].effectsToAdd # {}
        /\ pass[p].pc = "add" =>
              /\ effects' = effects \cup pass[p].effectsToAdd
              /\ pass'[p].pc = "idle"

\* C20: within one reconcileEffects call the removals go out as at most one
\* deleteItems call and the additions as at most one addItems call, deleteItems
\* is called and has answered before addItems is called, and an empty batch
\* makes no call.
C20_OneDeleteThenOneAdd ==
    /\ [](\A f \in Frames : C20_Calls(f))
    /\ [][C20_WholeBatch]_vars

\* A call has returned that removed an effect and then created one.
C20_Witness ==
    /\ last.valid /\ last.f.failedAt = "none"
    /\ last.f.deleteCalls = 1 /\ last.f.addCalls = 1
    /\ \E e \in last.f.effectsToAdd : e \in effects
    /\ \A e \in effects : e.id \notin last.f.idsToRemove

\* Configs c and d of an enabled item differ in exactly one field.
C21_OneFieldApart(c, d) ==
    /\ isAuroraConfig(c) /\ isAuroraConfig(d) /\ Truthy(c.e)
    /\ DOMAIN c = DOMAIN d
    /\ Cardinality({k \in DOMAIN c : c[k] # d[k]}) = 1

\* C21: when a pass returns clean after a clean pass whose input differed in
\* one config field of an enabled item, the two fingerprints of the item
\* differ and its attachment is built from the new config (none if the new
\* config is disabled).
C21_FieldChangeReplaces ==
    (CleanReturn /\ last.prev.valid /\ last.prev.failedAt = "none" /\ ~last.prev.overlapped) =>
      \A i \in ItemIds :
        LET old == last.prev.items[i]
            new == last.f.items[i]
        IN (old.layer = "MAP" /\ new.layer = "MAP" /\ C21_OneFieldApart(old.config, new.config)) =>
             /\ effectSnapshot(old.config, old) # effectSnapshot(new.config, new)
             /\ IF Truthy(new.config.e)
                THEN /\ Attachments(i) # {}
                     /\ \A e \in Attachments(i) : Mirrors(e, new)
                ELSE Attachments(i) = {}

\* Every answer getItemBounds can give for an item.
C22_BoundsAnswers == {[ok |-> ok, min |-> [x |-> m, y |-> m]] : ok \in BOOLEAN, m \in BoundsMins}

\* C22: every effect a reconcileEffects call builds carries, in its uniforms,
\* a coordOffset that is an offset getCoordOffset returns for its source item,
\* an itemSize vector and a shapeType among 0, 1, 2, 3.
C22_GeometryInUniforms ==
    \A f \in Frames : \A e \in f.effectsToAdd :
      /\ e.uniforms.coordOffset \in
            {getCoordOffset(f.items[e.attachedTo], b) : b \in C22_BoundsAnswers}
      /\ DOMAIN e.uniforms.itemSize = {"x", "y"}
      /\ e.uniforms.shapeType \in {Num(k) : k \in 0..3}

\* The uniforms of Scenario A: s 100, l 100, h 0, o 0, blendMode 0, feather 0.
C23_ScenarioA ==
    /\ Float(frame.uniforms.saturation) = Unit /\ Float(frame.uniforms.lightness) = Unit
    /\ Float(frame.uniforms.hue) = 0 /\ Float(frame.uniforms.opacity) = 0
    /\ frame.uniforms.blendMode = Num(0) /\ Float(frame.uniforms.feather) = 0

\* C23: with saturation 100, lightness 100 and opacity 0 (Scenario A) the
\* colour main returns is the colour of the input pixel, whatever the pixel
\* and its position.
C23_PassThrough ==
    (frame.open /\ frame.out # NoColour /\ C23_ScenarioA) => frame.out = frame.color

\* C24: the alpha main returns is the alpha of the input pixel, for every
\* parameter set and every pixel.
C24_AlphaPreserved ==
    (frame.open /\ frame.out # NoColour) => frame.out.a = frame.color.a

\* This step is the click handler of the toggle.
C25_ToggleStep ==
    /\ menu.open /\ menu'.inputs = menu.inputs + 1 /\ menu'.writes = menu.writes + 1

\* This step is an updateItems call writing to the selected items.
C25_WriteStep == menu.open /\ menu'.writes = menu.writes - 1

\* C25: the toggle's click handler negates the enabled flag and leaves every
\* other field of the config and every slider where it was; whatever is
\* written to the selected items carries the positions the sliders have then.
C25_ToggleFlipsOnlyEnabled ==
    /\ C25_ToggleStep =>
         /\ menu'.currentConfig = [menu.currentConfig EXCEPT !.e = Bool(~Truthy(@))]
         /\ menu'.sliders = menu.sliders
         /\ menu'.toggleActive = ~menu.toggleActive
    /\ C25_WriteStep =>
         \A n \in DOMAIN selectedItemIds : \A k \in HSLOKeys :
           scene'[selectedItemIds[n]].config[k] = parseInt(menu.sliders[k])

C25_ToggleKeepsSliders == [][C25_ToggleFlipsOnlyEnabled]_vars

\* The user moved the saturation slider, toggled off and on again, and the
\* writes are done: the items are enabled and hold the slider's value.
C25_Witness ==
    /\ menu.open /\ menu.inputs = 3 /\ menu.writes = 0 /\ menu.inbox = <<>>
    /\ menu.sliders.s = toString(OtherValue("s"))
    /\ menu.toggleActive
    /\ \A i \in ItemIds : scene[i].config.s = OtherValue("s") /\ scene[i].config.e = Bool(TRUE)

\* The slider released last, with no input of the user since.
C26_Released(key) == menu.open /\ menu.released.key = key

\* The selected items all hold the value that slider key was released at.
C26_Stored(key) ==
    \A n \in DOMAIN selectedItemIds :
      scene[selectedItemIds[n]].config[key] = Num(menu.released.value)

\* C26: when the user has released a slider and makes no further input, the
\* config of every selected item eventually holds the released value.
C26_ReleasedValueIsStored ==
    \A key \in SliderKeys :
      C26_Released(key) ~> (~C26_Released(key) \/ C26_Stored(key))

\* C27: when saveToPresetSlot has returned, the room's preset array holds in
\* the chosen slot the given s, l, h, o under the given name, trimmed and cut
\* to MAX_NAME_LENGTH characters, or under "Preset <index + 1>" if nothing is
\* left of the name; every other slot is as loadPresets returned it.
C27_SaveStoresSlot ==
    (room.open /\ room.done.op = "save") =>
      LET k == room.done
          stored == room.presets.array
          t == trim(k.name)
          n == stored[k.index + 1].n.str
      IN /\ Len(n) <= MAX_NAME_LENGTH
         /\ t # <<>> => n = [i \in 1..(IF Len(t) < MAX_NAME_LENGTH THEN Len(t) ELSE MAX_NAME_LENGTH)
                                |-> t[i]]
         /\ t = <<>> => n = <<"P", "r", "e", "s", "e", "t", " ">> \o toString(Num(k.index + 1))
         /\ \A f \in HSLOKeys : stored[k.index + 1][f] = k.values[f]
         /\ DOMAIN stored = 1..MAX_PRESET_SLOTS
         /\ \A j \in DOMAIN stored : j # k.index + 1 => stored[j] = k.loaded.array[j]

\* A save under a name longer than MAX_NAME_LENGTH has returned.
C27_Witness ==
    /\ room.open /\ room.done.op = "save"
    /\ Len(trim(room.done.name)) > MAX_NAME_LENGTH
    /\ Len(room.presets.array[room.done.index + 1].n.str) = MAX_NAME_LENGTH

\* This step is the setMetadata of loadPresets (line 37) taking effect.
C28_SeedStep(c) == room.open /\ room.call[c].pc = "seed" /\ room'.call[c].pc # "seed"

\* C28: the starter presets are written only to a room whose presets key is
\* absent: the write of loadPresets never replaces presets the room holds.
C28_SeedOnlyIfAbsent ==
    \A c \in ClientIds :
      C28_SeedStep(c) => (room.presets = JsUndefined \/ room'.presets = room.presets)

C28_DefaultsNeverOverwrite == [][C28_SeedOnlyIfAbsent]_vars


\* C29: the library's mode is idle, rename or clear; a click on the active
\* mode's button returns to idle and a click on the other button switches to
\* it; when a clear ends and when a rename dialog closes, confirmed or
\* cancelled, the mode is idle; a preset click has an effect only while a mode
\* is active and only on an occupied slot.
C29_ModeButtonStep ==
    lib.open /\ lib'.inputs = lib.inputs + 1 /\ lib'.event.kind = "mode"

C29_PresetClickStep ==
    lib.open /\ lib'.inputs = lib.inputs + 1 /\ lib'.event.kind = "preset"

C29_ClearEnds ==
    lib.open /\ \E t \in lib.tasks : t.op = "clear" /\ t.pc = "loadPresets" /\ t \notin lib'.tasks

C29_RenameEnds ==
    lib.open /\ \E d \in lib.dialogs : d \notin lib'.dialogs

C29_ClickHasEffect ==
    \/ lib'.dialogs # lib.dialogs
    \/ lib'.tasks # lib.tasks
    \/ lib'.presets # lib.presets
    \/ lib'.activeMode # lib.activeMode
    \/ lib'.listeners # lib.listeners
    \/ room' # room

C29_Steps ==
    /\ C29_ModeButtonStep =>
         lib'.activeMode = (IF lib'.event.effect = lib.activeMode THEN "null"
                            ELSE lib'.event.effect)
    /\ (C29_ClearEnds \/ C29_RenameEnds) => lib'.activeMode = "null"
    /\ (C29_PresetClickStep /\ C29_ClickHasEffect) =>
         /\ lib.activeMode # "null"
         /\ lib.presets.array[lib'.event.index + 1] # JsNull

C29_LibraryModes ==
    /\ [](lib.open => lib.activeMode \in {"null", "rename", "clear"})
    /\ [][C29_Steps]_vars

\* A rename of slot 4 was confirmed and its dialog closed, then slot 0 was
\* cleared: the clear has just ended and the mode is idle.
C29_Witness ==
    /\ lib.open
    /\ lib.event.kind = "cleared" /\ lib.event.index = 0
    /\ lib.activeMode = "null"
    /\ lib.presets.array[1] = JsNull
    /\ lib.presets.array[5] # JsNull
    /\ lib.presets.array[5].n = Str(<<"D", "u", "s", "k">>)
    /\ lib.dialogs = {} /\ lib.tasks = {}


\* C30: only MAP-layer items count as configured.  No pass creates an
\* attachment for an item that its input holds on another layer, and a pass
\* (without failure or overlap) whose input holds an item off the MAP layer
\* that has an attachment leaves the item without attachment and without
\* cache entry.
C30_NeverAdded ==
    \A f \in Frames : \A e \in f.effectsToAdd : f.items[e.attachedTo].layer = "MAP"

C30_OffMapWithAttachment(f, i) ==
    /\ f.items[i].layer # "MAP"
    /\ isAuroraConfig(f.items[i].config)
    /\ MapHas(f.bySource, i)

C30_MovedOffIsCleaned ==
    CleanReturn =>
      \A i \in DOMAIN last.f.items :
        C30_OffMapWithAttachment(last.f, i) =>
          Attachments(i) = {} /\ ~MapHas(snapshotCache, i)

C30_OnlyMapLayerConfigured == C30_NeverAdded /\ C30_MovedOffIsCleaned


\* The attributes of an item that effectSnapshot reads, by name.
C31_Attribute(item, a) ==
    IF a = "position" THEN item.position
    ELSE IF a = "rotation" THEN <<item.rotation>>
    ELSE IF a = "scale" THEN item.scale
    ELSE IF a = "visible" THEN <<item.visible>>
    ELSE IF a = "type" THEN <<item.type>>
    ELSE IF a = "strokeWidth" THEN <<item.strokeWidth>>
    ELSE IF a = "width" THEN <<item.width>>
    ELSE <<item.height>>

C31_Attributes ==
    {"position", "rotation", "scale", "visible", "type", "strokeWidth", "width", "height"}

\* old and new are the same enabled configured MAP item but for one
\* attribute; stroke width, width and height count on shapes.
C31_OneAttributeApart(old, new) ==
    LET changed == {a \in C31_Attributes : C31_Attribute(old, a) # C31_Attribute(new, a)}
    IN /\ old.layer = "MAP" /\ new.layer = "MAP"
       /\ old.config = new.config
       /\ isAuroraConfig(new.config) /\ Truthy(new.config.e)
       /\ Cardinality(changed) = 1
       /\ changed \subseteq {"strokeWidth", "width", "height"} => isShape(old) /\ isShape(new)

\* C31: when a pass returns clean after a clean pass whose input differed in
\* one attribute (position, rotation, scale, visibility, type, stroke width,
\* width or height) of an enabled configured item that had an attachment, the
\* two fingerprints differ, the attachment the pass found is gone and the item
\* has exactly one attachment, with the item's new position, rotation, scale
\* and visibility (so an invisible item has an attachment with visible false).
C31_AttributeChangeReplaces ==
    (CleanReturn /\ last.prev.valid /\ last.prev.failedAt = "none" /\ ~last.prev.overlapped) =>
      \A i \in ItemIds :
        LET old == last.prev.items[i]
            new == last.f.items[i]
        IN (C31_OneAttributeApart(old, new) /\ MapHas(last.f.bySource, i)) =>
             /\ effectSnapshot(old.config, old) # effectSnapshot(new.config, new)
             /\ last.f.bySource[i] \notin effects
             /\ Cardinality(Attachments(i)) = 1
             /\ \A e \in Attachments(i) : C11_OwnTransform(e, new)


\* The cache holds, for item i, the fingerprint of i in the input of frame f.
C32_CacheIsCurrent(f, i) ==
    /\ MapHas(snapshotCache, i)
    /\ snapshotCache[i] = effectSnapshot(f.items[i].config, f.items[i])

\* Frame f schedules nothing for item i and does not wait for its bounds.
C32_NoWorkFor(f, i) ==
    /\ \A x \in f.idsToRemove : x[1] # i
    /\ \A e \in f.effectsToAdd : e.attachedTo # i
    /\ ~(f.pc = "bounds" /\ Head(f.todo) = i)

\* C32: when a pass has returned without failure and its input is what the
\* scene holds now, the cache entry of every configured MAP-layer item of its
\* input is that item's fingerprint, enabled or disabled; and a pass that finds a disabled item's cached fingerprint
\* equal to the fresh one schedules no deletion and no creation for it and
\* issues no bounds query for it.
C32_CacheHoldsFingerprints ==
    /\ (last.valid /\ last.f.failedAt = "none" /\ last.f.items = scene) =>
         \A i \in AuroraIds(last.f.items) : C32_CacheIsCurrent(last.f, i)
    /\ \A f \in Frames : \A i \in f.eqAtVisit :
         ~Truthy(f.items[i].config.e) => C32_NoWorkFor(f, i)


\* Effect e carries the marker and a back-reference to its attach target.
C33_Tagged(e) ==
    /\ "isEffect" \in DOMAIN e.metadata
    /\ e.metadata.sourceItemId = e.attachedTo

\* Every effect built or added is tagged and is among the items the query
\* returns; every entry of an index is an attachment of its key.
C33_TagsAgree ==
    /\ \A f \in Frames : \A e \in f.effectsToAdd : C33_Tagged(e)
    /\ \A e \in effects : C33_Tagged(e) /\ e \in findAllEffects(effects)
    /\ \A f \in Frames : \A s \in DOMAIN f.bySource :
         C33_Tagged(f.bySource[s]) /\ f.bySource[s].attachedTo = s

\* The query of call p answers: the index it builds has a key for the source
\* of every attachment in the scene, and its entries are such attachments.
C33_QueryIndexes ==
    \A p \in PassIds :
      (pass[p].pc = "query" /\ pass'[p].pc # "query" /\ fails' = fails) =>
        LET f == IF pass'[p].pc = "idle" THEN last'.f ELSE pass'[p]
        IN /\ DOMAIN f.bySource = {e.attachedTo : e \in effects}
           /\ \A s \in DOMAIN f.bySource : f.bySource[s] \in effects

\* C33: every attachment the reconciler creates carries the marker and a
\* back-reference equal to its attach target, so the query of the next pass
\* returns it and the pass indexes it under its own source id.
C33_CreatedAreFoundBySource == []C33_TagsAgree /\ [][C33_QueryIndexes]_vars

\* A pass has returned that found attachments of both items, each under its
\* own source id.
C33_Witness ==
    /\ last.valid /\ last.f.failedAt = "none"
    /\ DOMAIN last.f.bySource = ItemIds
    /\ \A s \in ItemIds : last.f.bySource[s] \in effects


\* C34: getCoordOffset has returned.  For a shape whose bounds query
\* succeeded, offset + position + 49 is the bounds' minimum on each axis;
\* for an item that is no shape the offset is zero and no query was issued.
C34_ResolvedOffset ==
    (frame.open /\ frame.pc = "returned") =>
      IF frame.item.type = "SHAPE"
      THEN frame.bounds.ok =>
             /\ frame.offset.x + frame.item.position.x + 49 = frame.bounds.min.x
             /\ frame.offset.y + frame.item.position.y + 49 = frame.bounds.min.y
             /\ frame.queries = 1
      ELSE frame.offset = [x |-> 0, y |-> 0] /\ frame.queries = 0

\* A shape away from the origin whose bounds query succeeded, with different
\* minima on the two axes.
C34_Witness ==
    /\ frame.open /\ frame.pc = "returned"
    /\ frame.item.type = "SHAPE" /\ frame.bounds.ok
    /\ frame.item.position = [x |-> 10, y |-> 20]
    /\ frame.bounds.min = [x |-> -60, y |-> -57]
    /\ frame.offset = [x |-> -119, y |-> -126]


\* C35: when both factors of a pixel are known, the factor with the invert
\* toggle on is 1 minus the factor with it off, for every feather value; with
\* feather 0 the factor with the toggle off is 1 and with it on is 0.
C35_InvertedIsComplement ==
    (frame.open /\ frame.plain # -1 /\ frame.inverted # -1) =>
      /\ frame.inverted = 1000 - frame.plain
      /\ frame.config.f = Num(0) => frame.plain = 1000 /\ frame.inverted = 0

\* The part of C35 that the program has: with a feather above 0 the two
\* factors are complements.
C35_ComplementWhenFeathered ==
    (frame.open /\ frame.plain # -1 /\ frame.inverted # -1 /\ frame.config.f.num > 0) =>
      frame.inverted = 1000 - frame.plain


\* C36: a call has returned without a failure; for an enabled configured
\* object whose attachment the call's query did not return although the
\* cache held its current fingerprint, the call built exactly one effect,
\* scheduled no deletion of an attachment of it, and the effect is in the
\* scene.
C36_Missing(f, i) ==
    /\ i \in AuroraIds(f.items)
    /\ Truthy(f.items[i].config.e)
    /\ i \in f.eqAtVisit
    /\ ~MapHas(f.bySource, i)

C36_MissingIsRecreated ==
    (last.valid /\ last.f.failedAt = "none") =>
      \A i \in ItemIds :
        C36_Missing(last.f, i) =>
          /\ Cardinality({e \in last.f.effectsToAdd : e.metadata.sourceItemId = i}) = 1
          /\ \A id \in last.f.idsToRemove : id[1] # i
          /\ \A e \in last.f.effectsToAdd : e.metadata.sourceItemId = i => e \in effects

\* An earlier addItems failed, and the next call has put the attachment of
\* "m1" back.
C36_Witness ==
    /\ fails > 0
    /\ last.valid /\ last.f.failedAt = "none"
    /\ C36_Missing(last.f, "m1")
    /\ Cardinality(Attachments("m1")) = 1


\* C37: at every moment at most one item-change subscription of the effect
\* manager is live, whatever the order of ready events, not-ready events,
\* the cleanup call and the onSceneReady calls in flight.
C37_AtMostOneSubscription ==
    frame.open => Cardinality(frame.live) <= 1

\* After two readiness events a second subscription has been made; it is
\* the live one and the first is not.
C37_Witness ==
    /\ frame.open
    /\ frame.made >= 2
    /\ frame.live = {frame.unsubItems}
    /\ frame.events >= 2


\* C38: a step in which a reconcileEffects call or removeAllEffects resumes
\* leaves the scene's items, config metadata included, as they were; every
\* local item a step removes carries the marker, and so does every local
\* item a step adds.
C38_Marked(e) == "isEffect" \in DOMAIN e.metadata

C38_Resumes ==
    \/ \E p \in PassIds : pass[p].pc # "idle" /\ pass'[p].pc # pass[p].pc
    \/ life.td.pc # "idle" /\ life'.td.pc # life.td.pc

C38_Step ==
    /\ C38_Resumes => scene' = scene
    /\ \A e \in effects \ effects' : C38_Marked(e)
    /\ \A e \in effects' \ effects : C38_Marked(e)

C38_OnlyMarkedLocalItems == [][C38_Step]_vars

\* A call has deleted an attachment and created one while the other
\* extension's local item was there, and that item is still there.
C38_Witness ==
    /\ last.valid /\ last.f.failedAt = "none"
    /\ last.f.idsToRemove # {} /\ last.f.effectsToAdd # {}
    /\ last.f.effectsToAdd \subseteq effects
    /\ OtherLocalItem \in effects
    /\ scene = last.f.items


\* C39: when the setMetadata of a saveToPresetSlot or clearPresetSlot call
\* takes effect, every slot other than the call's own holds what the room
\* held just before: an update another participant has made to another slot
\* meanwhile is still there.
C39_SaveStep(c) ==
    /\ room.open /\ room.call[c].pc = "savePresets" /\ room'.call[c].pc # "savePresets"
    /\ isPresets(room.presets)

C39_OtherSlotsKept ==
    \A c \in ClientIds :
      C39_SaveStep(c) =>
        \A j \in 1..MAX_PRESET_SLOTS :
          j # room.call[c].index + 1 => room'.presets.array[j] = room.presets.array[j]

C39_NoLostUpdate == [][C39_OtherSlotsKept]_vars

====
